---- MODULE Spec2Model ----
(***************************************************************************)
(* Model of frescobaldi_app/fonts/musicfonts.py (music font registries,    *)
(* install by symlink/copy, link-only removal) and of                      *)
(* frescobaldi_app/vcs/manager.py (document -> repository tracking).       *)
(*                                                                         *)
(* A file name  <family>-<size>.<type>  is the triple <<family,size,type>>;*)
(* a path is a directory tag plus a file name.  Python dicts keep their    *)
(* insertion order, so a registry is a sequence of families and a family   *)
(* holds, per type, a sequence of font files.                              *)
(***************************************************************************)
EXTENDS Integers, Sequences, FiniteSets, TLC

VARIABLES
    fs,            \* the filesystem: path -> [kind, target]
    symlinks_ok,   \* does os.symlink work on this host (else NotImplementedError)
    installed,     \* InstalledMusicFonts._families
    rows,          \* family names shown by the installed fonts' item model
    repo,          \* MusicFontRepo._families
    installable,   \* MusicFontRepo.installable_fonts._families
    flagCalls,     \* flag_for_install calls on the current repo object (capped)
    envChanges,    \* changes made to the disk by other programs so far
    calls,         \* font operations called so far
    last,          \* the last font operation called and how it ended
    git_ok,        \* vcs.is_available('git')
    doc_url,       \* document -> its current url
    doc_view_map,  \* VCSManager._doc_view_map
    tracked,       \* the git RepoManager's registrations
    vlast          \* the last document event handled and what it called

fontVars == <<fs, symlinks_ok, installed, rows, repo, installable, flagCalls,
              envChanges, calls, last>>
vcsVars == <<git_ok, doc_url, doc_view_map, tracked, vlast>>
vars == <<fs, symlinks_ok, installed, rows, repo, installable, flagCalls,
          envChanges, calls, last, git_ok, doc_url, doc_view_map, tracked, vlast>>

----------------------------------------------------------------------------
(* Bounds of the model *)

\* changes other programs make to the disk in one behaviour
MaxEnv == 1
\* calls of the font operations in one behaviour
MaxCalls == 3
\* saturation of the flag_for_install call counter
MaxFlagCalls == 2

\* family names in sorted() order
FamilyOrder == <<"a", "b">>

\* the file names of the small disks: two fonts of family a, one of family b
SmallNames == { <<"a", "11", "otf">>, <<"a", "brace", "otf">>, <<"b", "11", "svg">> }

----------------------------------------------------------------------------
(* MusicFontFamily: class data and file name parsing *)

None == "None"

\* the keys of MusicFontFamily._files, in dict order
Types == <<"otf", "svg", "woff">>
TypeSet == {Types[i] : i \in 1..Len(Types)}

sizes_list == <<"11", "13", "14", "16", "18", "20", "23", "26">>

\* the keys a complete type has: the eight sizes and the brace font
AllSizes == sizes_list \o <<"brace">>

\* the file names of a complete family a: every size and the brace font in every type
CompleteNames ==
    {<<"a", AllSizes[i], Types[j]>> : i \in 1..Len(AllSizes), j \in 1..Len(Types)}

\* all file names of the model in name order: a-1.otf, a-11.otf, a-13.otf, ..., then
\* b-11.svg
NameOrder ==
    << <<"a", "1", "otf">> >> \o
    [k \in 1..(Len(AllSizes) * Len(Types)) |->
        <<"a", AllSizes[((k - 1) % Len(AllSizes)) + 1],
          Types[((k - 1) \div Len(AllSizes)) + 1]>>]
    \o << <<"b", "11", "svg">> >>

\* the strings \d\d matches, as far as the model uses them
TwoDigits == {sizes_list[i] : i \in 1..Len(sizes_list)} \cup {"12", "99"}

\* font_re.match(basename): the groups family, size, type, or no match
NoMatch == [matched |-> FALSE]
parse_filename(name) ==
    IF name[2] \in (TwoDigits \cup {"brace"}) /\ name[3] \in TypeSet
    THEN [matched |-> TRUE, family |-> name[1], size |-> name[2], type |-> name[3]]
    ELSE NoMatch

----------------------------------------------------------------------------
(* The filesystem *)

NoPath == [dir |-> "", name |-> <<>>]
NoEntry == [kind |-> "none", target |-> NoPath]
RegularFile == [kind |-> "file", target |-> NoPath]
LinkTo(p) == [kind |-> "link", target |-> p]

SrcPath(name) == [dir |-> "src", name |-> name]
ExtPath(name) == [dir |-> "ext", name |-> name]

\* InstalledMusicFonts.font_dir: svg and woff share a directory
font_dir(type) == IF type = "otf" THEN "otf" ELSE "svg"

\* the paths of a disk that holds the given file names: the source tree and the
\* font directories (every path outside of them, dir "ext", is a regular file)
Paths(names) ==
    {SrcPath(n) : n \in names} \cup {[dir |-> font_dir(n[3]), name |-> n] : n \in names}

basename(p) == p.name

is_symlink(f, p) == f[p].kind = "link"
lexists(f, p) == f[p].kind # "none"

\* the path a name resolves to after following links (links never form a cycle)
RECURSIVE Resolve(_, _)
Resolve(f, p) ==
    IF p.dir = "ext" THEN p
    ELSE IF p \notin DOMAIN f THEN NoPath
    ELSE IF f[p].kind = "link" THEN Resolve(f, f[p].target)
    ELSE p

\* os.path.exists / Path.exists: follows links
exists(f, p) ==
    LET q == Resolve(f, p) IN q # NoPath /\ (q.dir = "ext" \/ f[q].kind = "file")
\* Path.is_file: follows links
is_file(f, p) == exists(f, p)

----------------------------------------------------------------------------
(* MusicFontStatus, MusicFontFile, MusicFontFamily *)

FILE == "FILE"
MISSING_FILE == "MISSING_FILE"
LINK == "LINK"
BROKEN_LINK == "BROKEN_LINK"
MISSING == "MISSING"

\* a MusicFontFile, together with the size key it is stored under
MusicFontFile(size, file) ==
    [size |-> size, file |-> file, status |-> None, install |-> FALSE]

\* MusicFontFamily.__init__ without a file
EmptyFamily == [family |-> None, files |-> [t \in TypeSet |-> <<>>]]

\* position of the key size in one type's dict, 0 when it is no key
SizeIndex(entries, size) ==
    IF \E i \in 1..Len(entries) : entries[i].size = size
    THEN CHOOSE i \in 1..Len(entries) : entries[i].size = size
    ELSE 0

\* MusicFontFamily.check_file: family, type, size, or the reason it raises
check_file(f, file) ==
    IF ~exists(f, file) THEN [err |-> "notfound"]
    ELSE IF ~parse_filename(basename(file)).matched THEN [err |-> "invalid"]
    ELSE [err |-> "",
          family |-> parse_filename(basename(file)).family,
          type |-> parse_filename(basename(file)).type,
          size |-> parse_filename(basename(file)).size]

IsFont(checked) == checked.err = ""

\* an add that stores a second entry for a key the dict already has
add_appending(fam, type, size, file) ==
    [fam EXCEPT !.files[type] = Append(@, MusicFontFile(size, file))]

\* MusicFontFamily.add: an existing key keeps its place in the dict
add(fam, type, size, file) ==
    LET entries == fam.files[type]
        i == SizeIndex(entries, size)
    IN [fam EXCEPT !.files[type] =
            IF i = 0 THEN Append(entries, MusicFontFile(size, file))
            ELSE [entries EXCEPT ![i] = MusicFontFile(size, file)]]

\* Python truth of self.family: None and the empty string are false
Truthy(name) == name # None /\ name # ""

\* MusicFontFamily.add_file: [err, fam]
family_add_file(fam, f, file) ==
    LET font == check_file(f, file) IN
    IF ~IsFont(font) THEN [err |-> font.err, fam |-> fam]
    ELSE IF Truthy(fam.family) /\ fam.family # font.family
    THEN [err |-> "mismatch", fam |-> fam]
    ELSE [err |-> "",
          fam |-> add([fam EXCEPT !.family =
                          IF Truthy(fam.family) THEN fam.family ELSE font.family],
                      font.type, font.size, file)]

\* the sizes registered for a type (the dict keys)
SizeKeys(fam, type) == {fam.files[type][i].size : i \in 1..Len(fam.files[type])}

\* the MusicFontFile under (type, size); the key must exist
FontAt(fam, type, size) == fam.files[type][SizeIndex(fam.files[type], size)]

\* a classification that asks for a file first and for a symbolic link second
Classify_file_first(f, file) ==
    IF is_file(f, file) THEN FILE
    ELSE IF is_symlink(f, file) THEN BROKEN_LINK
    ELSE MISSING_FILE

\* the classification MusicFontFamily.status computes for a file
Classify(f, file) ==
    IF is_symlink(f, file)
    THEN (IF exists(f, file) THEN LINK ELSE BROKEN_LINK)
    ELSE IF is_file(f, file) THEN FILE
    ELSE MISSING_FILE

\* MusicFontFamily.status: the value returned
status(fam, f, type, size) ==
    IF size \notin SizeKeys(fam, type) THEN MISSING
    ELSE IF FontAt(fam, type, size).status = None
    THEN Classify(f, FontAt(fam, type, size).file)
    ELSE FontAt(fam, type, size).status

\* MusicFontFamily.has_brace
has_brace(fam, type) == "brace" \in SizeKeys(fam, type)

\* MusicFontFamily.missing_sizes
missing_sizes(fam, type) == SelectSeq(sizes_list, LAMBDA size : size \notin SizeKeys(fam, type))

\* an is_complete() that is content with one complete type
is_complete_any_type(fam, type) ==
    IF type # None THEN has_brace(fam, type) /\ missing_sizes(fam, type) = <<>>
    ELSE \E t \in TypeSet : has_brace(fam, t) /\ missing_sizes(fam, t) = <<>>

\* an is_complete() that does not ask for the brace font
is_complete_sizes_only(fam, type) ==
    IF type # None THEN missing_sizes(fam, type) = <<>>
    ELSE \A t \in TypeSet : missing_sizes(fam, t) = <<>>

\* MusicFontFamily.is_complete(type), and is_complete() when type is None
is_complete(fam, type) ==
    IF type # None THEN has_brace(fam, type) /\ missing_sizes(fam, type) = <<>>
    ELSE \A t \in TypeSet : has_brace(fam, t) /\ missing_sizes(fam, t) = <<>>

\* MusicFontFamily.remove: pop(size, None), the other keys keep their order
family_remove(fam, type, size) ==
    [fam EXCEPT !.files[type] = SelectSeq(@, LAMBDA e : e.size # size)]

\* MusicFontFamily.walk: <<type, size, font>> in dict order
RECURSIVE WalkTypes(_, _)
\* one type's part of the walk
walk_type(type, entries) ==
    [i \in 1..Len(entries) |-> <<type, entries[i].size, entries[i]>>]

WalkTypes(fam, k) ==
    IF k > Len(Types) THEN <<>>
    ELSE walk_type(Types[k], fam.files[Types[k]]) \o WalkTypes(fam, k + 1)

family_walk(fam) == WalkTypes(fam, 1)

----------------------------------------------------------------------------
(* AbstractMusicFontList *)

\* position of a family name among the keys of _families, 0 when it is no key
FamilyIndex(reg, name) ==
    IF \E i \in 1..Len(reg) : reg[i].family = name
    THEN CHOOSE i \in 1..Len(reg) : reg[i].family = name
    ELSE 0

FamilyKeys(reg) == {reg[i].family : i \in 1..Len(reg)}

\* AbstractMusicFontList.family (the key must exist)
family(reg, name) == reg[FamilyIndex(reg, name)]

\* AbstractMusicFontList.add_file: [err, reg]
list_add_file(reg, f, file) ==
    LET font == check_file(f, file) IN
    IF ~IsFont(font) THEN [err |-> font.err, reg |-> reg]
    ELSE IF font.family \notin FamilyKeys(reg)
    THEN LET made == family_add_file(EmptyFamily, f, file)
         IN IF made.err # "" THEN [err |-> made.err, reg |-> reg]
            ELSE [err |-> "", reg |-> Append(reg, made.fam)]
    ELSE [err |-> "",
          reg |-> [reg EXCEPT ![FamilyIndex(reg, font.family)] =
                      add(family(reg, font.family), font.type, font.size, file)]]

\* AbstractMusicFontList.add_family: a family of that name is overwritten in place
add_family(reg, fam) ==
    IF fam.family \in FamilyKeys(reg)
    THEN [reg EXCEPT ![FamilyIndex(reg, fam.family)] = fam]
    ELSE Append(reg, fam)

\* an add_tree that gives up at the first file add_file refuses
RECURSIVE add_tree_stopping(_, _, _)
add_tree_stopping(reg, f, listing) ==
    IF listing = <<>> THEN reg
    ELSE CHOOSE out \in {IF r.err # "" THEN reg
                         ELSE add_tree_stopping(r.reg, f, Tail(listing)) :
                            r \in {list_add_file(reg, f, Head(listing))}} : TRUE

\* AbstractMusicFontList.add_tree over the files os.walk lists, in its order
RECURSIVE add_tree(_, _, _)
add_tree(reg, f, listing) ==
    IF listing = <<>> THEN reg
    ELSE CHOOSE out \in {add_tree(r.reg, f, Tail(listing)) :
                            r \in {list_add_file(reg, f, Head(listing))}} : TRUE

\* sorted(): the family names in FamilyOrder's order
RECURSIVE SortedFrom(_, _)
SortedFrom(names, k) ==
    IF k > Len(FamilyOrder) THEN <<>>
    ELSE (IF FamilyOrder[k] \in names THEN <<FamilyOrder[k]>> ELSE <<>>)
         \o SortedFrom(names, k + 1)

\* AbstractMusicFontList.families
families(reg) == SortedFrom(FamilyKeys(reg), 1)

\* AbstractMusicFontList.walk: <<family name, type, size, font>> in dict order
RECURSIVE list_walk_from(_, _)
\* one family's part of the walk
walk_of(name, walk) ==
    [i \in 1..Len(walk) |-> <<name, walk[i][1], walk[i][2], walk[i][3]>>]

list_walk_from(reg, k) ==
    IF k > Len(reg) THEN <<>>
    ELSE walk_of(reg[k].family, family_walk(reg[k])) \o list_walk_from(reg, k + 1)

list_walk(reg) == list_walk_from(reg, 1)

\* the place of a file name in the name order
NameRank(name) == CHOOSE k \in 1..Len(NameOrder) : NameOrder[k] = name

\* the paths of S (of one directory) by name, ascending
ByName(S) ==
    [i \in 1..Cardinality(S) |->
        CHOOSE p \in S :
            Cardinality({q \in S : NameRank(q.name) <= NameRank(p.name)}) = i]

\* the order in which os.walk lists the entries of one directory: by name
Listings(S) == {ByName(S)}

\* os.walk(root): every directory entry that is no directory, a directory at a time
Entries(f, dir) == {p \in DOMAIN f : p.dir = dir /\ lexists(f, p)}

\* os.walk(root) of a source tree: one flat directory
WalkSource(f) == Listings(Entries(f, "src"))

\* os.walk(font_root): the otf and the svg directory, in either order
WalkFontRoot(f) ==
    {a \o b : a \in Listings(Entries(f, "otf")), b \in Listings(Entries(f, "svg"))}
    \cup {b \o a : a \in Listings(Entries(f, "otf")), b \in Listings(Entries(f, "svg"))}

----------------------------------------------------------------------------
(* MusicFontRepo.flag_for_install *)

Usable == {FILE, LINK}

\* a flag_all_for_install that stops after the first type, otf
flag_all_first_type(fam) ==
    [fam EXCEPT !.files["otf"] =
        [i \in 1..Len(fam.files["otf"]) |-> [fam.files["otf"][i] EXCEPT !.install = TRUE]]]

\* MusicFontFamily.flag_all_for_install
flag_all_for_install(fam) ==
    [fam EXCEPT !.files =
        [t \in TypeSet |-> [i \in 1..Len(fam.files[t]) |->
            [fam.files[t][i] EXCEPT !.install = TRUE]]]]

\* a condition that looks at the source slot only, not at the target
ShouldInstall_source_only(fam, target, f, type, size) ==
    status(fam, f, type, size) \in Usable

\* the condition under which MusicFontFamily.flag_for_install flags a slot
ShouldInstall(fam, target, f, type, size) ==
    /\ status(fam, f, type, size) \in Usable
    /\ status(target, f, type, size) \notin Usable

\* a flag_for_install whose status queries look at the disk every time
family_flag_requerying(fam, target, f) ==
    [fam EXCEPT !.files =
        [t \in TypeSet |-> [i \in 1..Len(fam.files[t]) |->
            [fam.files[t][i] EXCEPT
                !.status = Classify(f, fam.files[t][i].file),
                !.install = IF ShouldInstall(fam, target, f, t, fam.files[t][i].size)
                            THEN TRUE ELSE @]]]]

\* MusicFontFamily.flag_for_install: the source family after the call
family_flag_for_install(fam, target, f) ==
    [fam EXCEPT !.files =
        [t \in TypeSet |-> [i \in 1..Len(fam.files[t]) |->
            [fam.files[t][i] EXCEPT
                !.status = status(fam, f, t, fam.files[t][i].size),
                !.install = IF ShouldInstall(fam, target, f, t, fam.files[t][i].size)
                            THEN TRUE ELSE @]]]]

\* MusicFontFamily.flag_for_install: the target family after the call; its status
\* is queried (and memoized) only for the slots whose source file is usable
target_after_flag(fam, target, f) ==
    [target EXCEPT !.files =
        [t \in TypeSet |-> [i \in 1..Len(target.files[t]) |->
            IF /\ target.files[t][i].size \in SizeKeys(fam, t)
               /\ status(fam, f, t, target.files[t][i].size) \in Usable
            THEN [target.files[t][i] EXCEPT
                     !.status = status(target, f, t, target.files[t][i].size)]
            ELSE target.files[t][i]]]]

\* the first loop of MusicFontRepo.flag_for_install, on the source families
flag_families(src, inst, f) ==
    [k \in 1..Len(src) |->
        IF src[k].family \notin FamilyKeys(inst)
        THEN flag_all_for_install(src[k])
        ELSE family_flag_for_install(src[k], family(inst, src[k].family), f)]

\* a first loop that sets the install flag on the files of the target as well
flag_targets_marking(src, inst, f) ==
    [k \in 1..Len(inst) |->
        IF inst[k].family \in FamilyKeys(src)
        THEN flag_all_for_install(target_after_flag(family(src, inst[k].family), inst[k], f))
        ELSE inst[k]]

\* the first loop of MusicFontRepo.flag_for_install, on the installed families
flag_targets(src, inst, f) ==
    [k \in 1..Len(inst) |->
        IF inst[k].family \in FamilyKeys(src)
        THEN target_after_flag(family(src, inst[k].family), inst[k], f)
        ELSE inst[k]]

\* a second loop that adds every file of the walk, flagged or not
add_flagged_all(reg, f, walk) ==
    [err |-> "", reg |-> add_tree(reg, f, [i \in 1..Len(walk) |-> walk[i][4].file])]

\* the second loop: add_file of every flagged file, up to the first that raises
RECURSIVE add_flagged(_, _, _)
add_flagged(reg, f, walk) ==
    IF walk = <<>> THEN [err |-> "", reg |-> reg]
    ELSE IF ~Head(walk)[4].install THEN add_flagged(reg, f, Tail(walk))
    ELSE CHOOSE out \in {IF r.err # "" THEN r ELSE add_flagged(r.reg, f, Tail(walk)) :
                            r \in {list_add_file(reg, f, Head(walk)[4].file)}} : TRUE

\* MusicFontRepo.flag_for_install: [err, repo, installed, installable]
repo_flag_for_install(src, inst, f) ==
    LET flagged == flag_families(src, inst, f)
        built == add_flagged(<<>>, f, list_walk(flagged))
    IN [err |-> built.err, repo |-> flagged,
        installed |-> flag_targets(src, inst, f), installable |-> built.reg]

----------------------------------------------------------------------------
(* InstalledMusicFonts.install, MusicFontRepo.install_flagged *)

TargetPath(type, font_file) == [dir |-> font_dir(type), name |-> basename(font_file)]

\* install(type, font_file, copy=True): copyfile writes through a link at the target
install_copy(inst, f, type, font_file, oserror) ==
    LET target == TargetPath(type, font_file)
        dst == Resolve(f, target)
    IN IF oserror \/ ~exists(f, font_file) \/ dst = Resolve(f, font_file)
          \/ dst \notin DOMAIN f
       THEN [err |-> "permission", fs |-> f, reg |-> inst]
       ELSE LET f2 == [f EXCEPT ![dst] = RegularFile]
                r == list_add_file(inst, f2, target)
            IN [err |-> r.err, fs |-> f2, reg |-> r.reg]

\* an install that copies the file also where the host has symbolic links
install_always_copy(inst, f, supported, type, font_file, oserror) ==
    install_copy(inst, f, type, font_file, oserror)

\* an install that takes away what is at the target before it links
install_replacing(inst, f, supported, type, font_file, oserror) ==
    IF ~supported
    THEN install_always_copy(inst, f, supported, type, font_file, oserror)
    ELSE IF oserror
    THEN [err |-> "permission", fs |-> f, reg |-> inst]
    ELSE [err |-> list_add_file(inst,
                      [f EXCEPT ![TargetPath(type, font_file)] = LinkTo(font_file)],
                      TargetPath(type, font_file)).err,
          fs |-> [f EXCEPT ![TargetPath(type, font_file)] = LinkTo(font_file)],
          reg |-> list_add_file(inst,
                      [f EXCEPT ![TargetPath(type, font_file)] = LinkTo(font_file)],
                      TargetPath(type, font_file)).reg]

\* install(type, font_file): [err, fs, reg]
install(inst, f, supported, type, font_file, oserror) ==
    LET target == TargetPath(type, font_file) IN
    IF ~supported
    THEN \* NotImplementedError: install with copy=True, then add_file once more
         LET c == install_copy(inst, f, type, font_file, oserror)
         IN IF c.err # "" THEN c
            ELSE [err |-> list_add_file(c.reg, c.fs, target).err, fs |-> c.fs,
                  reg |-> list_add_file(c.reg, c.fs, target).reg]
    ELSE IF oserror \/ lexists(f, target)
    THEN [err |-> "permission", fs |-> f, reg |-> inst]
    ELSE LET f2 == [f EXCEPT ![target] = LinkTo(font_file)]
             r == list_add_file(inst, f2, target)
         IN [err |-> r.err, fs |-> f2, reg |-> r.reg]

\* the loop of install_flagged over installable_fonts.walk(), from its k-th file on;
\* the failAt-th install is the one the operating system refuses (0: none)
RECURSIVE install_from(_, _, _, _, _, _)
\* a loop that installs the remaining files before it lets the exception propagate
install_next_continuing(r, supported, walk, k, failAt) ==
    IF r.err # ""
    THEN [err |-> r.err, at |-> k,
          fs |-> install_from(r.reg, r.fs, supported, walk, k + 1, failAt).fs,
          reg |-> install_from(r.reg, r.fs, supported, walk, k + 1, failAt).reg]
    ELSE install_from(r.reg, r.fs, supported, walk, k + 1, failAt)

\* after the k-th install returned r: the exception propagates, or the loop goes on
install_next(r, supported, walk, k, failAt) ==
    IF r.err # "" THEN [err |-> r.err, at |-> k, fs |-> r.fs, reg |-> r.reg]
    ELSE install_from(r.reg, r.fs, supported, walk, k + 1, failAt)

install_from(inst, f, supported, walk, k, failAt) ==
    IF k > Len(walk) THEN [err |-> "", at |-> 0, fs |-> f, reg |-> inst]
    ELSE CHOOSE out \in
             {install_next(r, supported, walk, k, failAt) :
                 r \in {install(inst, f, supported, walk[k][2], walk[k][4].file,
                                k = failAt)}} : TRUE

install_flagged(inst, f, supported, able, failAt) ==
    install_from(inst, f, supported, list_walk(able), 1, failAt)

----------------------------------------------------------------------------
(* InstalledMusicFonts.remove *)

\* the files of a family that are symbolic links, and those that are not, in walk order
RECURSIVE PathsOf(_, _, _)
PathsOf(walk, f, wantLinks) ==
    IF walk = <<>> THEN <<>>
    ELSE (IF is_symlink(f, Head(walk)[3].file) = wantLinks
          THEN <<Head(walk)[3].file>> ELSE <<>>)
         \o PathsOf(Tail(walk), f, wantLinks)

links_of(fam, f) == PathsOf(family_walk(fam), f, TRUE)
\* a list of files that holds every path of the family, the links as well
files_with_links(fam, f) ==
    [i \in 1..Len(family_walk(fam)) |-> family_walk(fam)[i][3].file]
files_of(fam, f) == PathsOf(family_walk(fam), f, FALSE)

\* an unlink that follows the link and deletes the file it points to as well
Unlink_following(f, paths, n) ==
    [p \in DOMAIN f |->
        IF \E i \in 1..n : paths[i] = p \/ Resolve(f, paths[i]) = p THEN NoEntry ELSE f[p]]

\* Path.unlink of the first n paths of a list
Unlink(f, paths, n) ==
    [p \in DOMAIN f |-> IF \E i \in 1..n : paths[i] = p THEN NoEntry ELSE f[p]]

\* a pop that leaves the family in the dict
pop_keeping(reg, name) == reg

\* self._families.pop(family_name, None)
pop(reg, name) == SelectSeq(reg, LAMBDA fam : fam.family # name)

\* a loop body that unlinks the links of a family before it looks for regular files
remove_family_unlinking(inst, f, name, failLink) ==
    IF name \notin FamilyKeys(inst)
    THEN [err |-> "attribute", msg |-> <<>>, tried |-> 0, fs |-> f, reg |-> inst]
    ELSE IF failLink > 0 /\ failLink <= Len(links_of(family(inst, name), f))
    THEN [err |-> "permission", msg |-> <<>>, tried |-> failLink,
          fs |-> Unlink(f, links_of(family(inst, name), f), failLink - 1), reg |-> inst]
    ELSE IF files_of(family(inst, name), f) # <<>>
    THEN [err |-> "refused", msg |-> files_of(family(inst, name), f),
          tried |-> Len(links_of(family(inst, name), f)),
          fs |-> Unlink(f, links_of(family(inst, name), f),
                        Len(links_of(family(inst, name), f))),
          reg |-> inst]
    ELSE [err |-> "", msg |-> <<>>, tried |-> Len(links_of(family(inst, name), f)),
          fs |-> Unlink(f, links_of(family(inst, name), f),
                        Len(links_of(family(inst, name), f))),
          reg |-> pop(inst, name)]

\* a loop body that, when an unlink is refused, still unlinks the links after it
\* before it raises
remove_family_trying_all(inst, f, name, failLink) ==
    IF name \notin FamilyKeys(inst)
    THEN [err |-> "attribute", msg |-> <<>>, tried |-> 0, fs |-> f, reg |-> inst]
    ELSE IF files_of(family(inst, name), f) # <<>>
    THEN [err |-> "refused", msg |-> files_of(family(inst, name), f), tried |-> 0,
          fs |-> f, reg |-> inst]
    ELSE IF failLink > 0 /\ failLink <= Len(links_of(family(inst, name), f))
    THEN [err |-> "permission", msg |-> <<>>, tried |-> failLink,
          fs |-> [p \in DOMAIN f |->
                    IF \E i \in 1..Len(links_of(family(inst, name), f)) :
                          i # failLink /\ links_of(family(inst, name), f)[i] = p
                    THEN NoEntry ELSE f[p]],
          reg |-> inst]
    ELSE [err |-> "", msg |-> <<>>, tried |-> Len(links_of(family(inst, name), f)),
          fs |-> Unlink(f, links_of(family(inst, name), f),
                        Len(links_of(family(inst, name), f))),
          reg |-> pop(inst, name)]

\* the body of the loop of remove for one family; the failLink-th unlink is the one
\* the operating system refuses (0: none): [err, msg, tried (unlinks), fs, reg]
remove_family(inst, f, name, failLink) ==
    IF name \notin FamilyKeys(inst)
    THEN \* self.family(family_name) is None: family.walk() raises AttributeError
         [err |-> "attribute", msg |-> <<>>, tried |-> 0, fs |-> f, reg |-> inst]
    ELSE IF files_of(family(inst, name), f) # <<>>
    THEN [err |-> "refused", msg |-> files_of(family(inst, name), f), tried |-> 0,
          fs |-> f, reg |-> inst]
    ELSE IF failLink > 0 /\ failLink <= Len(links_of(family(inst, name), f))
    THEN [err |-> "permission", msg |-> <<>>, tried |-> failLink,
          fs |-> Unlink(f, links_of(family(inst, name), f), failLink - 1), reg |-> inst]
    ELSE [err |-> "", msg |-> <<>>, tried |-> Len(links_of(family(inst, name), f)),
          fs |-> Unlink(f, links_of(family(inst, name), f),
                        Len(links_of(family(inst, name), f))),
          reg |-> pop(inst, name)]

\* the loop of remove from the k-th index on; done unlinks were made so far and the
\* failAt-th unlink of the call is the one the operating system refuses (0: none)
RECURSIVE remove_from(_, _, _, _, _, _)
\* a loop that goes on with the other families after one was refused, and raises
\* for the refused one at the end
remove_next_skipping(r, done, indexes, k, failAt) ==
    IF r.err = "refused"
    THEN [err |-> r.err, at |-> k, msg |-> r.msg,
          fs |-> remove_from(r.reg, r.fs, indexes, k + 1, done, failAt).fs,
          reg |-> remove_from(r.reg, r.fs, indexes, k + 1, done, failAt).reg]
    ELSE IF r.err # ""
    THEN [err |-> r.err, at |-> k, msg |-> r.msg, fs |-> r.fs, reg |-> r.reg]
    ELSE remove_from(r.reg, r.fs, indexes, k + 1, done, failAt)

\* after the k-th family ended as r: the exception propagates, or the loop goes on
remove_next(r, done, indexes, k, failAt) ==
    IF r.err # "" THEN [err |-> r.err, at |-> k, msg |-> r.msg, fs |-> r.fs, reg |-> r.reg]
    ELSE remove_from(r.reg, r.fs, indexes, k + 1, done, failAt)

remove_from(inst, f, indexes, k, done, failAt) ==
    IF k > Len(indexes)
    THEN [err |-> "", at |-> 0, msg |-> <<>>, fs |-> f, reg |-> inst]
    ELSE CHOOSE out \in
             {remove_next(r, done + r.tried, indexes, k, failAt) :
                 r \in {remove_family(inst, f, indexes[k], failAt - done)}} : TRUE

remove(inst, f, indexes, failAt) == remove_from(inst, f, indexes, 1, 0, failAt)

----------------------------------------------------------------------------
(* The font side as a state machine *)

\* op: the operation; oserr: which of its system calls the operating system refused
\* (0: none); err: the exception it raised ("": none); at: the place in its loop
\* where it raised; indexes: the families passed to remove; msg: the exception's text
Log(op, oserr, err, at, indexes, msg) ==
    [op |-> op, oserr |-> oserr, err |-> err, at |-> at, indexes |-> indexes,
     msg |-> msg]

\* the disks the program may find: source files are regular files or links to files
\* elsewhere, installed fonts are regular files or links into the source tree
DiskOf(names, srcKind, instKind) ==
    [p \in Paths(names) |->
        IF p.dir = "src"
        THEN (IF srcKind[p.name] = "link" THEN LinkTo(ExtPath(p.name))
              ELSE IF srcKind[p.name] = "file" THEN RegularFile ELSE NoEntry)
        ELSE (IF instKind[p.name] = "link" THEN LinkTo(SrcPath(p.name))
              ELSE IF instKind[p.name] = "file" THEN RegularFile ELSE NoEntry)]

\* the kinds of entry a source file and an installed font start as on the small
\* disks: a-11.otf is a link in the source tree where the host has links
SrcKinds(n, supported) ==
    IF n = <<"a", "11", "otf">> THEN (IF supported THEN {"link"} ELSE {"file"})
    ELSE IF n[1] = "a" THEN {"file"}
    ELSE {"none", "file"}
InstKinds(n, supported) ==
    IF supported THEN {"none", "file", "link"} ELSE {"none", "file"}

InitialDisks(supported) ==
    {DiskOf(SmallNames, s, i) :
        s \in {x \in [SmallNames -> {"none", "file", "link"}] :
                 \A n \in SmallNames : x[n] \in SrcKinds(n, supported)},
        i \in {x \in [SmallNames -> {"none", "file", "link"}] :
                 \A n \in SmallNames : x[n] \in InstKinds(n, supported)}}

\* the non-empty selections of rows of the tree view, in any order
Selections(shown) ==
    UNION {{l \in [1..Cardinality(S) -> S] :
               \A i, j \in 1..Cardinality(S) : l[i] = l[j] => i = j} :
           S \in (SUBSET {shown[i] : i \in 1..Len(shown)}) \ {{}}}

\* InstalledMusicFonts.__init__ (add_tree of font_root), the first item_model(), and
\* MusicFontRepo.__init__ (add_tree of the source tree)
Init ==
    /\ symlinks_ok \in BOOLEAN
    /\ fs \in InitialDisks(symlinks_ok)
    /\ installed \in {add_tree(<<>>, fs, l) : l \in WalkFontRoot(fs)}
    /\ rows = families(installed)
    /\ repo \in {add_tree(<<>>, fs, l) : l \in WalkSource(fs)}
    /\ installable = <<>>
    /\ flagCalls = 0
    /\ envChanges = 0
    /\ calls = 0
    /\ last = Log("init", 0, "", 0, <<>>, <<>>)
    /\ git_ok = TRUE
    /\ doc_url = [d \in {"d1", "d2"} |-> <<"closed">>]
    /\ doc_view_map = [d \in {"d1", "d2"} |-> None]
    /\ tracked = {}
    /\ vlast = [op |-> "init", doc |-> "", url |-> <<>>, made |-> <<>>]

\* MusicFontRepo.__init__: a new repository object scanned from the source tree
Scan ==
    /\ calls < MaxCalls
    /\ calls' = calls + 1
    /\ repo' \in {add_tree(<<>>, fs, l) : l \in WalkSource(fs)}
    /\ installable' = <<>>
    /\ flagCalls' = 0
    /\ last' = Log("scan", 0, "", 0, <<>>, <<>>)
    /\ UNCHANGED <<fs, symlinks_ok, installed, rows, envChanges>>
    /\ UNCHANGED vcsVars

\* repo.flag_for_install(installed)
Flag ==
    LET r == repo_flag_for_install(repo, installed, fs) IN
    /\ calls < MaxCalls
    /\ calls' = calls + 1
    /\ repo' = r.repo
    /\ installed' = r.installed
    /\ installable' = r.installable
    /\ flagCalls' = IF flagCalls < MaxFlagCalls THEN flagCalls + 1 ELSE flagCalls
    /\ last' = Log("flag_for_install", 0, r.err, 0, <<>>, <<>>)
    /\ UNCHANGED <<fs, symlinks_ok, rows, envChanges>>
    /\ UNCHANGED vcsVars

\* repo.install_flagged(installed); the item model is repopulated when no install raised
InstallFlagged ==
    /\ calls < MaxCalls
    /\ calls' = calls + 1
    /\ \E failAt \in 0..Len(list_walk(installable)) :
        LET r == install_flagged(installed, fs, symlinks_ok, installable, failAt) IN
        /\ fs' = r.fs
        /\ installed' = r.reg
        /\ rows' = IF r.err = "" THEN families(r.reg) ELSE rows
        /\ last' = Log("install_flagged", failAt, r.err, r.at, <<>>, <<>>)
        /\ UNCHANGED <<symlinks_ok, repo, installable, flagCalls, envChanges>>
        /\ UNCHANGED vcsVars

\* the symbolic links registered in the selected families
LinksSelected(inst, f, indexes) ==
    UNION {{links_of(inst[j], f)[i] : i \in 1..Len(links_of(inst[j], f))} :
           j \in {j \in 1..Len(inst) : \E k \in 1..Len(indexes) : inst[j].family = indexes[k]}}

\* installed.remove(selectedRows()); the item model is repopulated when nothing raised
Remove ==
    /\ calls < MaxCalls
    /\ calls' = calls + 1
    /\ \E indexes \in Selections(rows) :
       \E failAt \in 0..Cardinality(LinksSelected(installed, fs, indexes)) :
        LET r == remove(installed, fs, indexes, failAt) IN
        /\ fs' = r.fs
        /\ installed' = r.reg
        /\ rows' = IF r.err = "" THEN families(r.reg) ELSE rows
        /\ last' = Log("remove", failAt, r.err, r.at, indexes, r.msg)
        /\ UNCHANGED <<symlinks_ok, repo, installable, flagCalls, envChanges>>
        /\ UNCHANGED vcsVars

\* another program deletes a file or a link of the source tree or of the font directories
EnvUnlink ==
    /\ envChanges < MaxEnv
    /\ \E p \in DOMAIN fs :
        /\ lexists(fs, p)
        /\ fs' = [fs EXCEPT ![p] = NoEntry]
    /\ envChanges' = envChanges + 1
    /\ last' = Log("env", 0, "", 0, <<>>, <<>>)
    /\ UNCHANGED <<symlinks_ok, installed, rows, repo, installable, flagCalls, calls>>
    /\ UNCHANGED vcsVars

Next ==
    \/ Scan
    \/ Flag
    \/ InstallFlagged
    \/ Remove
    \/ EnvUnlink

----------------------------------------------------------------------------
(* vcs/manager.py: VCSManager *)

Docs == {"d1", "d2"}

\* urls as path components; the empty url is <<>>
EmptyUrl == <<>>
Urls == { <<"g1", "sub", "x.ly">>, <<"g2", "y.ly">>, <<"h", "z.ly">>,
          <<"s", "w.ly">>, <<"n", "q.ly">> }

\* the directories that hold a .git, .hg or .svn marker directory
Markers == { << <<"g1">>, "git" >>, << <<"g2">>, "git" >>,
             << <<"h">>, "hg" >>, << <<"s">>, "svn" >> }

NoRoot == [found |-> FALSE, root |-> <<>>, rel |-> <<>>]

\* <Helper>.extract_vcs_path: walk upward from the file's directory to the first
\* directory that holds the marker
extract_vcs_path(kind, path) ==
    LET hits == {k \in 0..(Len(path) - 1) : <<SubSeq(path, 1, k), kind>> \in Markers}
    IN IF hits = {} THEN NoRoot
       ELSE LET k == CHOOSE x \in hits : \A y \in hits : y <= x
            IN [found |-> TRUE, root |-> SubSeq(path, 1, k),
                rel |-> SubSeq(path, k + 1, Len(path))]

View(doc) == <<"view", doc>>

\* gitrepo.RepoManager.track_document
track_document(reg, view, root, rel) ==
    {e \in reg : ~(e.root = root /\ e.rel = rel)}
    \cup {[root |-> root, rel |-> rel, view |-> view]}

\* gitrepo.RepoManager.untrack_document
untrack_document(reg, root, rel) ==
    {e \in reg : ~(e.root = root /\ e.rel = rel)}

VLog(op, doc, url, made) == [op |-> op, doc |-> doc, url |-> url, made |-> made]

\* the tail shared by the handlers: Mercurial and Subversion are looked up, not tracked
StubTail(path) ==
    IF extract_vcs_path("hg", path).found THEN "hg"
    ELSE IF extract_vcs_path("svn", path).found THEN "svn"
    ELSE "none"

\* VCSManager.setCurrentDocument(view): [tracked, made]
setCurrentDocument(reg, gitAvailable, doc, url) ==
    LET git == extract_vcs_path("git", url) IN
    IF url = EmptyUrl THEN [tracked |-> reg, made |-> <<>>]
    ELSE IF gitAvailable /\ git.found
    THEN [tracked |-> track_document(reg, View(doc), git.root, git.rel),
          made |-> << <<"track", git.root, git.rel>> >>]
    ELSE [tracked |-> reg, made |-> <<>>]

\* a closed handler that looks the url up and untracks nothing
slotDocumentClosed_lookup_only(reg, gitAvailable, url) ==
    [tracked |-> reg, made |-> <<>>]

\* VCSManager.slotDocumentClosed(doc): [tracked, made]
slotDocumentClosed(reg, gitAvailable, url) ==
    LET git == extract_vcs_path("git", url) IN
    IF url = EmptyUrl THEN [tracked |-> reg, made |-> <<>>]
    ELSE IF gitAvailable /\ git.found
    THEN [tracked |-> untrack_document(reg, git.root, git.rel),
          made |-> << <<"untrack", git.root, git.rel>> >>]
    ELSE [tracked |-> reg, made |-> <<>>]

\* a url-changed handler that goes on to the new url after it found the old url in
\* a Mercurial or Subversion tree
slotDocumentUrlChanged_continuing(reg, view, url, old) ==
    IF old # EmptyUrl /\ extract_vcs_path("git", old).found
    THEN [tracked |-> untrack_document(reg, extract_vcs_path("git", old).root,
                                       extract_vcs_path("git", old).rel),
          made |-> << <<"untrack", extract_vcs_path("git", old).root,
                        extract_vcs_path("git", old).rel>> >>]
    ELSE IF extract_vcs_path("git", url).found
    THEN [tracked |-> track_document(reg, view, extract_vcs_path("git", url).root,
                                     extract_vcs_path("git", url).rel),
          made |-> << <<"track", extract_vcs_path("git", url).root,
                        extract_vcs_path("git", url).rel>> >>]
    ELSE [tracked |-> reg, made |-> <<>>]

\* VCSManager.slotDocumentUrlChanged(doc, url, old): [tracked, made]; every branch
\* taken for the old url returns
slotDocumentUrlChanged(reg, view, url, old) ==
    LET gitOld == extract_vcs_path("git", old)
        gitNew == extract_vcs_path("git", url)
    IN IF old # EmptyUrl /\ gitOld.found
       THEN [tracked |-> untrack_document(reg, gitOld.root, gitOld.rel),
             made |-> << <<"untrack", gitOld.root, gitOld.rel>> >>]
       ELSE IF old # EmptyUrl /\ StubTail(old) # "none"
       THEN [tracked |-> reg, made |-> <<>>]
       ELSE IF gitNew.found
       THEN [tracked |-> track_document(reg, view, gitNew.root, gitNew.rel),
             made |-> << <<"track", gitNew.root, gitNew.rel>> >>]
       ELSE [tracked |-> reg, made |-> <<>>]

NotOpen == <<"closed">>

\* the manager after __init__, no document open; the font side stays idle
VcsInit ==
    /\ git_ok \in BOOLEAN
    /\ doc_url = [d \in Docs |-> NotOpen]
    /\ doc_view_map = [d \in Docs |-> None]
    /\ tracked = {}
    /\ vlast = VLog("init", "", EmptyUrl, <<>>)
    /\ symlinks_ok = TRUE
    /\ fs = DiskOf(SmallNames, [n \in SmallNames |-> "none"], [n \in SmallNames |-> "none"])
    /\ installed = <<>>
    /\ rows = <<>>
    /\ repo = <<>>
    /\ installable = <<>>
    /\ flagCalls = 0
    /\ envChanges = 0
    /\ calls = 0
    /\ last = Log("init", 0, "", 0, <<>>, <<>>)

\* a document is opened (new, or from a file) and its view becomes current, or the
\* view of an open document becomes current again
SetCurrent(d) ==
    \E url \in IF doc_url[d] = NotOpen THEN Urls \cup {EmptyUrl} ELSE {doc_url[d]} :
        LET r == setCurrentDocument(tracked, git_ok, d, url) IN
        /\ doc_url' = [doc_url EXCEPT ![d] = url]
        /\ doc_view_map' = [doc_view_map EXCEPT ![d] = View(d)]
        /\ tracked' = r.tracked
        /\ vlast' = VLog("open", d, url, r.made)
        /\ UNCHANGED git_ok
        /\ UNCHANGED fontVars

\* an open document is closed
Closed(d) ==
    /\ doc_url[d] # NotOpen
    /\ LET r == slotDocumentClosed(tracked, git_ok, doc_url[d]) IN
        /\ tracked' = r.tracked
        /\ vlast' = VLog("close", d, doc_url[d], r.made)
    /\ doc_url' = [doc_url EXCEPT ![d] = NotOpen]
    /\ UNCHANGED <<git_ok, doc_view_map>>
    /\ UNCHANGED fontVars

\* an open document is saved under another name
UrlChanged(d) ==
    /\ doc_url[d] # NotOpen
    /\ \E url \in Urls \ {doc_url[d]} :
        LET r == slotDocumentUrlChanged(tracked, doc_view_map[d], url, doc_url[d]) IN
        /\ doc_url' = [doc_url EXCEPT ![d] = url]
        /\ tracked' = r.tracked
        /\ vlast' = VLog("url_changed", d, url, r.made)
    /\ UNCHANGED <<git_ok, doc_view_map>>
    /\ UNCHANGED fontVars

VcsNext ==
    \/ \E d \in Docs : SetCurrent(d)
    \/ \E d \in Docs : Closed(d)
    \/ \E d \in Docs : UrlChanged(d)

\* the font registries, with the document tracker idle
Spec == Init /\ [][Next]_vars

\* a complete family a (27 regular files) in the source tree, scanned, and an empty
\* font_root on a host with symbolic links
CompleteInit ==
    /\ symlinks_ok = TRUE
    /\ fs = DiskOf(CompleteNames, [n \in CompleteNames |-> "file"],
                   [n \in CompleteNames |-> "none"])
    /\ installed = <<>>
    /\ rows = <<>>
    /\ repo \in {add_tree(<<>>, fs, l) : l \in WalkSource(fs)}
    /\ installable = <<>>
    /\ flagCalls = 0
    /\ envChanges = 0
    /\ calls = 0
    /\ last = Log("init", 0, "", 0, <<>>, <<>>)
    /\ git_ok = TRUE
    /\ doc_url = [d \in {"d1", "d2"} |-> <<"closed">>]
    /\ doc_view_map = [d \in {"d1", "d2"} |-> None]
    /\ tracked = {}
    /\ vlast = [op |-> "init", doc |-> "", url |-> <<>>, made |-> <<>>]

CompleteNext ==
    \/ Scan
    \/ Flag
    \/ InstallFlagged
    \/ Remove

\* the font operations on the complete family, no other program touching the disk
CompleteSpec == CompleteInit /\ [][CompleteNext]_vars

\* the document tracker, with the font registries idle
VcsSpec == VcsInit /\ [][VcsNext]_vars

\* the file names of the otf type of family a: the eight sizes and the brace font
OtfNames == {<<"a", AllSizes[i], "otf">> : i \in 1..Len(AllSizes)}

\* the nine otf files of family a (regular files) in the source tree, scanned, and
\* an empty font_root on a host with symbolic links
OtfInit ==
    /\ symlinks_ok = TRUE
    /\ fs = DiskOf(OtfNames, [n \in OtfNames |-> "file"], [n \in OtfNames |-> "none"])
    /\ installed = <<>>
    /\ rows = <<>>
    /\ repo \in {add_tree(<<>>, fs, l) : l \in WalkSource(fs)}
    /\ installable = <<>>
    /\ flagCalls = 0
    /\ envChanges = 0
    /\ calls = 0
    /\ last = Log("init", 0, "", 0, <<>>, <<>>)
    /\ git_ok = TRUE
    /\ doc_url = [d \in {"d1", "d2"} |-> <<"closed">>]
    /\ doc_view_map = [d \in {"d1", "d2"} |-> None]
    /\ tracked = {}
    /\ vlast = [op |-> "init", doc |-> "", url |-> <<>>, made |-> <<>>]

\* the font operations on the nine otf files, no other program touching the disk
OtfSpec == OtfInit /\ [][CompleteNext]_vars

----------------------------------------------------------------------------
(* One MusicFontFamily object, used directly: add_file and remove *)

\* the files of the directory the family's files are taken from: the complete family
\* a, a-12.otf (a size outside sizes_list), fonts of family b, the fonts -11.otf and
\* -13.otf (empty family name), a-1.otf (no font name) and b-13.otf (not on the disk)
FamilyFiles ==
    CompleteNames \cup
    { <<"a", "12", "otf">>, <<"b", "11", "otf">>, <<"b", "13", "otf">>,
      <<"", "11", "otf">>, <<"", "13", "otf">>, <<"a", "1", "otf">> }

FamilyDisk ==
    [p \in {SrcPath(n) : n \in FamilyFiles} |->
        IF p.name = <<"b", "13", "otf">> THEN NoEntry ELSE RegularFile]

\* the files passed to add_file
AddNames ==
    { <<"a", "11", "otf">>, <<"a", "brace", "otf">>, <<"a", "11", "svg">>,
      <<"a", "12", "otf">>, <<"b", "11", "otf">>, <<"b", "13", "otf">>,
      <<"", "11", "otf">>, <<"", "13", "otf">>, <<"a", "1", "otf">> }

\* the sizes passed to remove
RemoveSizes == {"11", "12", "brace"}

\* what a call on the family did: the file or the (type, size) it was given and the
\* exception it raised ("": none)
FamLog(op, err, file, type, size) ==
    [op |-> op, err |-> err, file |-> file, type |-> type, size |-> size]

\* the family object (kept as the only element of repo): MusicFontFamily(),
\* MusicFontFamily('-11.otf'), or the family a made from the complete tree
FamilyInit ==
    /\ fs = FamilyDisk
    /\ repo \in { <<EmptyFamily>>,
                  <<family_add_file(EmptyFamily, fs, SrcPath(<<"", "11", "otf">>)).fam>>,
                  add_tree(<<>>, fs, ByName({SrcPath(n) : n \in CompleteNames})) }
    /\ last = FamLog("init", "", NoPath, "", "")
    /\ symlinks_ok = TRUE
    /\ installed = <<>>
    /\ rows = <<>>
    /\ installable = <<>>
    /\ flagCalls = 0
    /\ envChanges = 0
    /\ calls = 0
    /\ git_ok = TRUE
    /\ doc_url = [d \in {"d1", "d2"} |-> <<"closed">>]
    /\ doc_view_map = [d \in {"d1", "d2"} |-> None]
    /\ tracked = {}
    /\ vlast = [op |-> "init", doc |-> "", url |-> <<>>, made |-> <<>>]

\* family.add_file(file)
FamAddFile ==
    /\ calls < MaxCalls
    /\ calls' = calls + 1
    /\ \E n \in AddNames :
        LET r == family_add_file(repo[1], fs, SrcPath(n)) IN
        /\ repo' = <<r.fam>>
        /\ last' = FamLog("add_file", r.err, SrcPath(n), "", "")
    /\ UNCHANGED <<fs, symlinks_ok, installed, rows, installable, flagCalls, envChanges>>
    /\ UNCHANGED vcsVars

\* family.remove(type, size)
FamRemove ==
    /\ calls < MaxCalls
    /\ calls' = calls + 1
    /\ \E t \in TypeSet : \E size \in RemoveSizes :
        /\ repo' = <<family_remove(repo[1], t, size)>>
        /\ last' = FamLog("remove", "", NoPath, t, size)
    /\ UNCHANGED <<fs, symlinks_ok, installed, rows, installable, flagCalls, envChanges>>
    /\ UNCHANGED vcsVars

FamilyNext ==
    \/ FamAddFile
    \/ FamRemove

FamilySpec == FamilyInit /\ [][FamilyNext]_vars

----------------------------------------------------------------------------
(* One AbstractMusicFontList, used directly: add_tree and add_file *)

\* the file names of the tree: the small names and a-1.otf, which is no font name
TreeNames == SmallNames \cup { <<"a", "1", "otf">> }

\* the trees add_tree walks: entries are absent, regular files, or links to files of
\* another directory which may not exist (a dangling link)
TreeDisks ==
    {DiskOf(TreeNames, s, i) :
        s \in {x \in [TreeNames -> {"none", "file"}] :
                 \A n \in TreeNames : n # <<"a", "11", "otf">> => x[n] = "file"},
        i \in {x \in [TreeNames -> {"none", "file", "link"}] :
                 /\ x[<<"a", "brace", "otf">>] # "none"
                 /\ x[<<"b", "11", "svg">>] # "link"
                 /\ x[<<"a", "1", "otf">>] # "link"}}

\* what a call on the list did: the file it was given, the exception it raised
\* ("": none), and the call before it
TreeLog(op, err, file, prev) == [op |-> op, err |-> err, file |-> file, prev |-> prev]

\* AbstractMusicFontList.__init__: clear(), no family yet
TreeInit ==
    /\ fs \in TreeDisks
    /\ installed = <<>>
    /\ last = TreeLog("init", "", NoPath, "")
    /\ symlinks_ok = TRUE
    /\ rows = <<>>
    /\ repo = <<>>
    /\ installable = <<>>
    /\ flagCalls = 0
    /\ envChanges = 0
    /\ calls = 0
    /\ git_ok = TRUE
    /\ doc_url = [d \in {"d1", "d2"} |-> <<"closed">>]
    /\ doc_view_map = [d \in {"d1", "d2"} |-> None]
    /\ tracked = {}
    /\ vlast = [op |-> "init", doc |-> "", url |-> <<>>, made |-> <<>>]

\* list.add_tree(root) of the tree that holds the otf and the svg directory
AddTree ==
    /\ calls < MaxCalls
    /\ calls' = calls + 1
    /\ installed' \in {add_tree(installed, fs, l) : l \in WalkFontRoot(fs)}
    /\ last' = TreeLog("add_tree", "", NoPath, last.op)
    /\ UNCHANGED <<fs, symlinks_ok, rows, repo, installable, flagCalls, envChanges>>
    /\ UNCHANGED vcsVars

\* list.add_file(file) called directly, for any path
AddFile ==
    /\ calls < MaxCalls
    /\ calls' = calls + 1
    /\ \E p \in DOMAIN fs :
        LET r == list_add_file(installed, fs, p) IN
        /\ installed' = r.reg
        /\ last' = TreeLog("add_file", r.err, p, last.op)
    /\ UNCHANGED <<fs, symlinks_ok, rows, repo, installable, flagCalls, envChanges>>
    /\ UNCHANGED vcsVars

TreeNext ==
    \/ AddTree
    \/ AddFile

TreeSpec == TreeInit /\ [][TreeNext]_vars

----------------------------------------------------------------------------
(* An AbstractMusicFontList and a MusicFontFamily composed beside it: add_family *)

\* a new list (installed) and a family object that is not in it yet (repo[1]):
\* MusicFontFamily() or MusicFontFamily('-11.otf')
RegistryInit ==
    /\ fs = FamilyDisk
    /\ repo \in { <<EmptyFamily>>,
                  <<family_add_file(EmptyFamily, fs, SrcPath(<<"", "11", "otf">>)).fam>> }
    /\ installed = <<>>
    /\ last = FamLog("init", "", NoPath, "", "")
    /\ symlinks_ok = TRUE
    /\ rows = <<>>
    /\ installable = <<>>
    /\ flagCalls = 0
    /\ envChanges = 0
    /\ calls = 0
    /\ git_ok = TRUE
    /\ doc_url = [d \in {"d1", "d2"} |-> <<"closed">>]
    /\ doc_view_map = [d \in {"d1", "d2"} |-> None]
    /\ tracked = {}
    /\ vlast = [op |-> "init", doc |-> "", url |-> <<>>, made |-> <<>>]

\* list.add_family(family) of a family that has a name; the caller goes on with a
\* new MusicFontFamily()
AddFamily ==
    /\ calls < MaxCalls
    /\ calls' = calls + 1
    /\ repo[1].family # None
    /\ installed' = add_family(installed, repo[1])
    /\ repo' = <<EmptyFamily>>
    /\ last' = FamLog("add_family", "", NoPath, "", "")
    /\ UNCHANGED <<fs, symlinks_ok, rows, installable, flagCalls, envChanges>>
    /\ UNCHANGED vcsVars

RegistryNext ==
    \/ FamAddFile
    \/ AddFamily
    \/ AddFile

RegistrySpec == RegistryInit /\ [][RegistryNext]_vars

----------------------------------------------------------------------------
(* InstalledMusicFonts.install, called for one file at a time *)

\* the fonts install is called for: one of each type
InstallNames == { <<"a", "11", "otf">>, <<"a", "11", "woff">>, <<"b", "11", "svg">> }

\* the disks install may find: a source file is a regular file, a link to a file
\* elsewhere (where the host has links) or, b-11.svg, absent; anything may be at the
\* target already: a regular file, a link into the source tree, and for a-11.otf a
\* link to a file of a directory that is gone (a dangling link)
InstallDisks(supported) ==
    {[p \in Paths(InstallNames) |->
        IF p.dir # "src" /\ i[p.name] = "dangling"
        THEN LinkTo([dir |-> "gone", name |-> p.name])
        ELSE DiskOf(InstallNames, s, i)[p]] :
        s \in {x \in [InstallNames -> {"none", "file", "link"}] :
                 /\ x[<<"a", "11", "otf">>] \in (IF supported THEN {"file", "link"}
                                                ELSE {"file"})
                 /\ x[<<"a", "11", "woff">>] = "file"
                 /\ x[<<"b", "11", "svg">>] \in {"none", "file"}},
        i \in {x \in [InstallNames -> {"none", "file", "link", "dangling"}] :
                 \A n \in InstallNames :
                    \/ x[n] \in InstKinds(n, supported)
                    \/ supported /\ n = <<"a", "11", "otf">> /\ x[n] = "dangling"}}

\* what an install call did: whether the operating system refused its system call,
\* the exception it raised ("": none), and its arguments
InstLog(op, oserr, err, type, file) ==
    [op |-> op, oserr |-> oserr, err |-> err, type |-> type, file |-> file]

\* InstalledMusicFonts.__init__ (add_tree of font_root) and MusicFontRepo.__init__
\* (add_tree of the source tree)
InstallInit ==
    /\ symlinks_ok \in BOOLEAN
    /\ fs \in InstallDisks(symlinks_ok)
    /\ installed \in {add_tree(<<>>, fs, l) : l \in WalkFontRoot(fs)}
    /\ last = InstLog("init", FALSE, "", "", NoPath)
    /\ rows = families(installed)
    /\ repo \in {add_tree(<<>>, fs, l) : l \in WalkSource(fs)}
    /\ installable = <<>>
    /\ flagCalls = 0
    /\ envChanges = 0
    /\ calls = 0
    /\ git_ok = TRUE
    /\ doc_url = [d \in {"d1", "d2"} |-> <<"closed">>]
    /\ doc_view_map = [d \in {"d1", "d2"} |-> None]
    /\ tracked = {}
    /\ vlast = [op |-> "init", doc |-> "", url |-> <<>>, made |-> <<>>]

\* installed.install(type, font_file) with the type of the file's name, as
\* install_flagged calls it; the operating system may refuse the link or the copy
Install ==
    /\ calls < MaxCalls
    /\ calls' = calls + 1
    /\ \E n \in InstallNames : \E oserror \in BOOLEAN :
        LET r == install(installed, fs, symlinks_ok, n[3], SrcPath(n), oserror) IN
        /\ fs' = r.fs
        /\ installed' = r.reg
        /\ last' = InstLog("install", oserror, r.err, n[3], SrcPath(n))
    /\ UNCHANGED <<symlinks_ok, rows, repo, installable, flagCalls, envChanges>>
    /\ UNCHANGED vcsVars

InstallNext ==
    \/ Install
    \/ Flag

InstallSpec == InstallInit /\ [][InstallNext]_vars

----------------------------------------------------------------------------
(* Properties of InstalledMusicFonts.remove *)

\* the paths of a list, as a set
PathSet(paths) == {paths[i] : i \in 1..Len(paths)}

\* the family is registered and one of its registered files is no symbolic link
HasRegular(inst, f, name) ==
    name \in FamilyKeys(inst) /\ files_of(family(inst, name), f) # <<>>

\* the family is registered and all of its registered files are symbolic links
AllLinks(inst, f, name) ==
    name \in FamilyKeys(inst) /\ files_of(family(inst, name), f) = <<>>

\* every path registered in the family
RegisteredPaths(inst, f, name) ==
    PathSet(links_of(family(inst, name), f)) \cup PathSet(files_of(family(inst, name), f))

\* C1: remove is all-links-or-nothing per family.  When a family named in the batch
\* holds a registered file that is no symbolic link, the call raises, and not later
\* than at that family; when the loop gets to that family the exception is the
\* removal-refused one and lists the family's non-link files (it always gets there
\* when the operating system refuses no unlink and every earlier row is still
\* registered); no link of that family is unlinked, and the family stays in the
\* registry with all its slots.
C1_RefusedFamilyUntouched ==
    [][last'.op = "remove" =>
        \A k \in 1..Len(last'.indexes) :
            HasRegular(installed, fs, last'.indexes[k]) =>
                /\ last'.err # ""
                /\ last'.at <= k
                /\ (last'.at = k =>
                        /\ last'.err = "refused"
                        /\ last'.msg = files_of(family(installed, last'.indexes[k]), fs))
                /\ ((/\ last'.oserr = 0
                     /\ \A j \in 1..k : last'.indexes[j] \in FamilyKeys(installed))
                        => last'.err = "refused")
                /\ last'.indexes[k] \in FamilyKeys(installed')
                /\ family(installed', last'.indexes[k]) = family(installed, last'.indexes[k])
                /\ \A p \in PathSet(links_of(family(installed, last'.indexes[k]), fs)) :
                        fs'[p] = fs[p]
    ]_vars

\* a remove was refused for a family that holds a link and a regular file, and both
\* are still there
C1_Witness ==
    /\ last.op = "remove"
    /\ last.err = "refused"
    /\ LET name == last.indexes[last.at] IN
        /\ HasRegular(installed, fs, name)
        /\ links_of(family(installed, name), fs) # <<>>
        /\ \E p \in PathSet(files_of(family(installed, name), fs)) : fs[p].kind = "file"

\* C2: a remove that fails because a selected family holds a regular file leaves the
\* disk and the registry completely unchanged, whatever the order of the batch.
C2_RefusedRemoveChangesNothing ==
    [][(last'.op = "remove" /\ last'.err = "refused") =>
            (fs' = fs /\ installed' = installed)]_vars

C4_RemoveDeletesOnlyLinks ==
    [][last'.op = "remove" =>
        /\ DOMAIN fs' = DOMAIN fs
        /\ \A p \in DOMAIN fs :
            /\ fs[p].kind = "file" => fs'[p] = fs[p]
            /\ fs'[p] # fs[p] =>
                /\ is_symlink(fs, p)
                /\ fs'[p] = NoEntry
                /\ \E k \in 1..Len(last'.indexes) :
                    /\ last'.indexes[k] \in FamilyKeys(installed)
                    /\ p \in PathSet(links_of(family(installed, last'.indexes[k]), fs))
                /\ exists(fs, fs[p].target) => exists(fs', fs[p].target)
    ]_vars

\* a remove of one family succeeded: none of the family's fonts is in the font
\* directories any more, and the source file of each of them exists
C4_Witness ==
    /\ last.op = "remove"
    /\ last.err = ""
    /\ Len(last.indexes) = 1
    /\ \A p \in DOMAIN fs :
        (p.dir # "src" /\ p.name[1] = last.indexes[1]) =>
            (fs[p] = NoEntry /\ exists(fs, SrcPath(p.name)) /\ fs[SrcPath(p.name)].kind = "file")

----------------------------------------------------------------------------
(* Properties of VCSManager *)

\* C5: after a url-changed event on a host where Git is available, a document whose
\* new url lies inside a Git repository is tracked under that repository (root and
\* relative path, with the document's view), also when its old url was inside a
\* Git repository.
C5_UrlChangedTracksNew ==
    (git_ok /\ vlast.op = "url_changed" /\ extract_vcs_path("git", vlast.url).found) =>
        [root |-> extract_vcs_path("git", vlast.url).root,
         rel |-> extract_vcs_path("git", vlast.url).rel,
         view |-> View(vlast.doc)] \in tracked

----------------------------------------------------------------------------
(* Properties of install_flagged and of the install/remove round trip *)

\* what the registry holds under (family, type, size): <<the font file>>, or <<>>
SlotOf(reg, name, type, size) ==
    IF name \in FamilyKeys(reg) /\ size \in SizeKeys(family(reg, name), type)
    THEN <<FontAt(family(reg, name), type, size)>>
    ELSE <<>>

\* C6: install_flagged aborts at the first OS-level error without rollback.  When
\* the operating system refuses an install the call raises, not later than at that
\* file, and at that file the exception is the permission-kind one; when the call
\* raises the permission-kind exception at the k-th file of installable_fonts.walk(),
\* every file before the k-th is on disk at its target (a link, or a copy where the
\* host has no links) and registered in the target registry, and for the k-th file
\* and every file after it the target path and the registry slot are as before.
C6_InstallFlaggedAbortsAtFirstError ==
    [][last'.op = "install_flagged" =>
        /\ last'.oserr > 0 =>
            /\ last'.err # ""
            /\ last'.at <= last'.oserr
            /\ last'.at = last'.oserr => last'.err = "permission"
        /\ last'.err = "permission" =>
            /\ last'.at \in 1..Len(list_walk(installable))
            /\ \A i \in 1..Len(list_walk(installable)) :
                LET entry == list_walk(installable)[i]
                    target == TargetPath(entry[2], entry[4].file)
                IN /\ i < last'.at =>
                        /\ fs'[target] = IF symlinks_ok THEN LinkTo(entry[4].file)
                                         ELSE RegularFile
                        /\ SlotOf(installed', entry[1], entry[2], entry[3])
                               = <<MusicFontFile(entry[3], target)>>
                   /\ i >= last'.at =>
                        /\ fs'[target] = fs[target]
                        /\ SlotOf(installed', entry[1], entry[2], entry[3])
                               = SlotOf(installed, entry[1], entry[2], entry[3])
    ]_vars

\* install_flagged raised the permission-kind exception in the middle of the batch:
\* a file was installed before the failing one and a file comes after it
C6_Witness ==
    /\ last.op = "install_flagged"
    /\ last.err = "permission"
    /\ last.at >= 2
    /\ last.at < Len(list_walk(installable))
    /\ lexists(fs, TargetPath(list_walk(installable)[1][2], list_walk(installable)[1][4].file))
    /\ ~lexists(fs, TargetPath(list_walk(installable)[last.at + 1][2],
                               list_walk(installable)[last.at + 1][4].file))

\* the registry right after install_flagged installed one complete family by links:
\* it holds that family and nothing else, complete, every file a symbolic link
JustInstalledComplete ==
    /\ last.op = "install_flagged"
    /\ last.err = ""
    /\ Len(installable) = 1
    /\ is_complete(installable[1], None)
    /\ Len(installed) = 1
    /\ installed[1].family = installable[1].family
    /\ is_complete(installed[1], None)
    /\ AllLinks(installed, fs, installed[1].family)
    /\ rows = <<installed[1].family>>

\* C7: install/remove round trip.  From an empty registry, flagging a complete
\* source family and installing it (the operating system refusing nothing) succeeds
\* and leaves the registry holding exactly that family, all links; removing that
\* family then succeeds, families() is empty again as before the install, and no
\* font of the family is left in the font directories.
C7_InstallRemoveRoundTrip ==
    [][/\ (/\ installed = <<>>
           /\ last.op = "flag_for_install"
           /\ last.err = ""
           /\ Len(installable) = 1
           /\ is_complete(installable[1], None)
           /\ last'.op = "install_flagged"
           /\ last'.oserr = 0)
          => (last'.err = "" /\ JustInstalledComplete')
       /\ (/\ JustInstalledComplete
           /\ last'.op = "remove"
           /\ last'.oserr = 0)
          => /\ last'.indexes = <<installed[1].family>>
             /\ last'.err = ""
             /\ families(installed') = <<>>
             /\ rows' = <<>>
             /\ \A p \in DOMAIN fs' :
                    (p.dir # "src" /\ p.name[1] = installed[1].family) => fs'[p] = NoEntry
             /\ \A p \in DOMAIN fs' : p.dir = "src" => fs'[p] = fs[p]
    ]_vars

\* the complete family was flagged, installed and removed again: the registry is
\* empty, the font directories are empty and the source files are in place
C7_Witness ==
    /\ last.op = "remove"
    /\ last.err = ""
    /\ last.indexes = <<"a">>
    /\ installed = <<>>
    /\ Len(installable) = 1
    /\ is_complete(installable[1], None)
    /\ \A p \in DOMAIN fs : IF p.dir = "src" THEN fs[p] = RegularFile ELSE fs[p] = NoEntry

----------------------------------------------------------------------------
(* Properties of flag_for_install *)

\* the target registry has every slot of the source family as FILE or LINK
TargetHasEverySlot(fam, inst, f) ==
    /\ fam.family \in FamilyKeys(inst)
    /\ \A t \in TypeSet : \A i \in 1..Len(fam.files[t]) :
            status(family(inst, fam.family), f, t, fam.files[t][i].size) \in {FILE, LINK}

\* C8: whenever flag_for_install(installed) is called and the installed registry has
\* every slot of a source family as FILE or LINK, no file of that family is flagged
\* for install and the family has no file in installable_fonts afterwards; on every
\* call, a second call on the same repository object included.
C8_NothingFlaggedWhenTargetHasAll ==
    [][last'.op = "flag_for_install" =>
        \A k \in 1..Len(repo) :
            TargetHasEverySlot(repo[k], installed, fs) =>
                /\ \A t \in TypeSet : \A i \in 1..Len(repo'[k].files[t]) :
                        ~repo'[k].files[t][i].install
                /\ repo[k].family \notin FamilyKeys(installable')
    ]_vars

\* every file of the family is flagged for install
AllFlagged(fam) ==
    \A t \in TypeSet : \A i \in 1..Len(fam.files[t]) : fam.files[t][i].install

\* every (type, size) slot of the family is in the registry, with the family's file
AllSlotsIn(fam, reg) ==
    \A t \in TypeSet : \A i \in 1..Len(fam.files[t]) :
        SlotOf(reg, fam.family, t, fam.files[t][i].size)
            = <<MusicFontFile(fam.files[t][i].size, fam.files[t][i].file)>>

\* the files of a registry that are flagged for install
FlaggedFiles(reg) ==
    {list_walk(reg)[i][4].file :
        i \in {j \in 1..Len(list_walk(reg)) : list_walk(reg)[j][4].install}}

\* C9: when the installed registry has no family of a source family's name,
\* flag_for_install flags every file of that family for install, and all of the
\* family's (type, size) slots are in installable_fonts when the call returns; it
\* returns whenever the flagged files of the repository are still on disk (a file
\* that another program deleted after the scan makes add_file raise).
C9_FlagAllWhenFamilyNotInstalled ==
    [][last'.op = "flag_for_install" =>
        \A k \in 1..Len(repo) :
            repo[k].family \notin FamilyKeys(installed) =>
                /\ AllFlagged(repo'[k])
                /\ last'.err = "" => AllSlotsIn(repo'[k], installable')
                /\ (\A p \in FlaggedFiles(repo') : exists(fs, p)) => last'.err = ""
    ]_vars

\* flag_for_install returned for a source family of two files that the installed
\* registry does not hold: both are flagged and both are in installable_fonts
C9_Witness ==
    /\ last.op = "flag_for_install"
    /\ last.err = ""
    /\ \E k \in 1..Len(repo) :
        /\ repo[k].family \notin FamilyKeys(installed)
        /\ Len(family_walk(repo[k])) >= 2
        /\ AllFlagged(repo[k])
        /\ AllSlotsIn(repo[k], installable)

\* C10: on a freshly scanned repository, for a source family the target also has,
\* flag_for_install sets install on exactly the source slots whose own status is
\* FILE or LINK and whose target slot's status is not FILE or LINK; every other
\* source slot keeps install = FALSE.
C10_FlagsExactlyMissingSlots ==
    [][(last'.op = "flag_for_install" /\ flagCalls = 0) =>
        \A k \in 1..Len(repo) :
            repo[k].family \in FamilyKeys(installed) =>
                \A t \in TypeSet : \A i \in 1..Len(repo[k].files[t]) :
                    repo'[k].files[t][i].install =
                        (/\ status(repo[k], fs, t, repo[k].files[t][i].size)
                                \in {FILE, LINK}
                         /\ status(family(installed, repo[k].family), fs, t,
                                   repo[k].files[t][i].size) \notin {FILE, LINK})
    ]_vars

\* after the first flag_for_install on a repository, a family the target also has
\* holds a usable file that is flagged and a usable file that is not
C10_Witness ==
    /\ last.op = "flag_for_install"
    /\ flagCalls = 1
    /\ \E k \in 1..Len(repo) :
        /\ repo[k].family \in FamilyKeys(installed)
        /\ \E t \in TypeSet : \E i, j \in 1..Len(repo[k].files[t]) :
            /\ repo[k].files[t][i].install
            /\ repo[k].files[t][i].status \in {FILE, LINK}
            /\ ~repo[k].files[t][j].install
            /\ repo[k].files[t][j].status \in {FILE, LINK}

\* C11: after every flag_for_install call that returns, installable_fonts is a
\* freshly built registry: it holds a (family, type, size) slot exactly for the
\* slots of the source repository whose file has install = TRUE, each with a new
\* font file object for the same path, and nothing else (nothing left over from an
\* earlier call).
C11_InstallableIsExactlyTheFlagged ==
    [][(last'.op = "flag_for_install" /\ last'.err = "") =>
        /\ \A k \in 1..Len(repo') : \A t \in TypeSet : \A i \in 1..Len(repo'[k].files[t]) :
                SlotOf(installable', repo'[k].family, t, repo'[k].files[t][i].size)
                    = IF repo'[k].files[t][i].install
                      THEN <<MusicFontFile(repo'[k].files[t][i].size,
                                           repo'[k].files[t][i].file)>>
                      ELSE <<>>
        /\ \A j \in 1..Len(list_walk(installable')) :
                SlotOf(repo', list_walk(installable')[j][1], list_walk(installable')[j][2],
                       list_walk(installable')[j][3]) # <<>>
    ]_vars

\* the second flag_for_install on a repository object returned: installable_fonts
\* holds a file, and the repository holds a file that is not flagged and not in it
C11_Witness ==
    /\ last.op = "flag_for_install"
    /\ last.err = ""
    /\ flagCalls = 2
    /\ installable # <<>>
    /\ \E k \in 1..Len(repo) : \E t \in TypeSet : \E i \in 1..Len(repo[k].files[t]) :
        /\ ~repo[k].files[t][i].install
        /\ SlotOf(installable, repo[k].family, t, repo[k].files[t][i].size) = <<>>

\* the entries of one font directory
EntriesIn(f, dir) == {p \in DOMAIN f : p.dir = dir /\ lexists(f, p)}

\* C12: with the nine otf files of one family in the source repository and an empty
\* installed registry, flag_for_install flags all nine and puts them in
\* installable_fonts; install_flagged (the operating system refusing nothing) then
\* creates nine entries in the otf font directory and none in the svg directory and
\* registers the nine, after which is_complete('otf') of the installed family is
\* true and is_complete() is false.
C12_NineOtfFilesScenario ==
    [][/\ (/\ installed = <<>>
           /\ Len(repo) = 1
           /\ Len(family_walk(repo[1])) = 9
           /\ last'.op = "flag_for_install")
          => /\ last'.err = ""
             /\ AllFlagged(repo'[1])
             /\ Len(list_walk(installable')) = 9
             /\ AllSlotsIn(repo'[1], installable')
       /\ (/\ installed = <<>>
           /\ last.op = "flag_for_install"
           /\ last.err = ""
           /\ Len(list_walk(installable)) = 9
           /\ last'.op = "install_flagged"
           /\ last'.oserr = 0)
          => /\ last'.err = ""
             /\ Cardinality(EntriesIn(fs', "otf")) = 9
             /\ EntriesIn(fs', "svg") = {}
             /\ Len(installed') = 1
             /\ Len(list_walk(installed')) = 9
             /\ \A j \in 1..9 :
                    /\ list_walk(installed')[j][2] = "otf"
                    /\ list_walk(installed')[j][4].file \in EntriesIn(fs', "otf")
             /\ is_complete(installed'[1], "otf")
             /\ ~is_complete(installed'[1], None)
    ]_vars

\* the nine otf files were flagged and installed into the empty registry: the
\* installed family is complete for otf and not complete overall
C12_Witness ==
    /\ last.op = "install_flagged"
    /\ last.err = ""
    /\ Len(list_walk(installable)) = 9
    /\ Cardinality(EntriesIn(fs, "otf")) = 9
    /\ Len(installed) = 1
    /\ is_complete(installed[1], "otf")
    /\ ~is_complete(installed[1], None)

\* C13: Git resolution is gated on the git capability in every handler: with git
\* not available on the host no document event calls track_document or
\* untrack_document, so nothing is ever tracked.
C13_NoGitNoTracking ==
    ~git_ok => (tracked = {} /\ vlast.made = <<>>)

\* C14: the document -> view mapping holds an entry only for the documents that are
\* open: the entry made when a document is opened is removed when it is closed.
C14_MapHoldsOnlyOpenDocuments ==
    \A d \in Docs : doc_view_map[d] # None => doc_url[d] # NotOpen

----------------------------------------------------------------------------
(* Properties of MusicFontFamily.status *)

\* the status every registered slot of a registry would report is in the set
StatusesWithin(reg, f, allowed) ==
    \A j \in 1..Len(list_walk(reg)) :
        status(family(reg, list_walk(reg)[j][1]), f,
               list_walk(reg)[j][2], list_walk(reg)[j][3]) \in allowed

\* C15: for every (type, size) slot registered in a family, status(type, size) is
\* never MISSING and never MISSING_FILE, in every state the font operations reach,
\* their failing executions included.  (The claim covers changes to the files on
\* disk by other programs as well; the states reached without any are enough to
\* decide it.)
C15_RegisteredNeverMissing ==
    envChanges = 0 =>
    /\ StatusesWithin(installed, fs, {FILE, LINK, BROKEN_LINK})
    /\ StatusesWithin(repo, fs, {FILE, LINK, BROKEN_LINK})
    /\ StatusesWithin(installable, fs, {FILE, LINK, BROKEN_LINK})

\* the slot still holds the memoized value, and a status query returns it
SameMemo(font, regAfter, fAfter, name, type, size) ==
    /\ SlotOf(regAfter, name, type, size) # <<>>
    /\ SlotOf(regAfter, name, type, size)[1].status = font.status
    /\ status(family(regAfter, name), fAfter, type, size) = font.status

\* every slot of the registry whose status was queried keeps the value in a step
\* with the given outcome, unless the step renews the whole registry object, drops
\* the slot's family or registers the slot's path again
MemoKept(reg, regAfter, fAfter, renewed, dropping, registering) ==
    \A j \in 1..Len(list_walk(reg)) :
        LET name == list_walk(reg)[j][1]
            type == list_walk(reg)[j][2]
            size == list_walk(reg)[j][3]
            font == list_walk(reg)[j][4]
        IN font.status # None =>
            \/ renewed
            \/ dropping /\ name \notin FamilyKeys(regAfter)
            \/ /\ registering
               /\ SlotOf(regAfter, name, type, size) = <<MusicFontFile(size, font.file)>>
            \/ SameMemo(font, regAfter, fAfter, name, type, size)

\* C16: status memoization is never invalidated automatically.  Once a status query
\* has stored a value for a registered file, every step leaves the value in place
\* and a later query returns it, whatever happens to the file on disk, unless the
\* step drops the family (remove), registers the path again (install) or makes a
\* new repository object (a new scan of the source tree).
C16_MemoizedStatusIsKept ==
    [][/\ MemoKept(installed, installed', fs', FALSE, last'.op = "remove",
                   last'.op = "install_flagged")
       /\ MemoKept(repo, repo', fs', last'.op = "scan", FALSE, FALSE)
    ]_vars

\* flag_for_install queried the status of a source slot a second time and the slot
\* still holds the value of the first query, which the disk no longer bears out
C16_Witness ==
    /\ last.op = "flag_for_install"
    /\ flagCalls = 2
    /\ \E k \in 1..Len(repo) :
        /\ repo[k].family \in FamilyKeys(installed)
        /\ \E t \in TypeSet : \E i \in 1..Len(repo[k].files[t]) :
            /\ repo[k].files[t][i].status \in {FILE, LINK}
            /\ Classify(fs, repo[k].files[t][i].file) # repo[k].files[t][i].status

\* the (type, size) keys are registered in the family, read from its dicts
HasKey(fam, type, size) == \E i \in 1..Len(fam.files[type]) : fam.files[type][i].size = size

\* every size of sizes_list and the brace font are keys of the type
EveryCanonicalKey(fam, type) == \A i \in 1..Len(AllSizes) : HasKey(fam, type, AllSizes[i])

\* C17: in every state a family reaches by adding, overwriting and removing slots
\* (two-digit sizes outside sizes_list included), is_complete(type) holds exactly
\* when missing_sizes(type) is empty and has_brace(type) holds, which is exactly when
\* the eight sizes and the brace font are registered for the type, and is_complete()
\* holds exactly when is_complete(type) holds for otf, svg and woff.
C17_CompleteIffNoMissingSizeAndBrace ==
    /\ \A t \in TypeSet :
        /\ is_complete(repo[1], t)
            <=> (missing_sizes(repo[1], t) = <<>> /\ has_brace(repo[1], t))
        /\ is_complete(repo[1], t) <=> EveryCanonicalKey(repo[1], t)
    /\ is_complete(repo[1], None) <=> \A t \in TypeSet : is_complete(repo[1], t)
    /\ is_complete(repo[1], None) <=> \A t \in TypeSet : EveryCanonicalKey(repo[1], t)

\* a slot was removed from a family that has a size outside sizes_list in otf: otf
\* is complete, the family is not
C17_Witness ==
    /\ last.op = "remove"
    /\ HasKey(repo[1], "otf", "12")
    /\ is_complete(repo[1], "otf")
    /\ ~is_complete(repo[1], None)
    /\ missing_sizes(repo[1], last.type) # <<>>

\* the slots of a registry in walk order: family name, type, size and file
SlotList(reg) ==
    [i \in 1..Len(list_walk(reg)) |->
        <<list_walk(reg)[i][1], list_walk(reg)[i][2], list_walk(reg)[i][3],
          list_walk(reg)[i][4].file>>]

\* the status of every (family, type, size), registered or not
StatusTable(reg, f) ==
    [name \in FamilyKeys(reg) |->
        [t \in TypeSet |->
            [size \in TwoDigits \cup {"brace"} |-> status(family(reg, name), f, t, size)]]]

\* C18: add_tree is idempotent on an unchanged directory: a second add_tree of the
\* same tree right after the first leaves families(), the registered slots and the
\* status of every slot as the first call left them.
C18_AddTreeTwiceIsAddTreeOnce ==
    [][(last'.op = "add_tree" /\ last.op = "add_tree")
       => /\ families(installed') = families(installed)
          /\ SlotList(installed') = SlotList(installed)
          /\ StatusTable(installed', fs') = StatusTable(installed, fs)
    ]_vars

\* add_tree ran twice in a row on a tree with two families, a link, and an entry
\* that is no usable font
C18_Witness ==
    /\ last.op = "add_tree"
    /\ last.prev = "add_tree"
    /\ Len(installed) = 2
    /\ \E name \in FamilyKeys(installed) : \E t \in TypeSet :
           status(family(installed, name), fs, t, "brace") = LINK
    /\ \E p \in DOMAIN fs : p.dir \in {"otf", "svg"} /\ lexists(fs, p) /\ ~exists(fs, p)

\* a path that names an existing file (links followed) with a font file name
GoodFont(f, p) == exists(f, p) /\ parse_filename(basename(p)).matched

\* the tree without the entries that are no such file
WithoutBad(f) ==
    [p \in DOMAIN f |->
        IF p.dir \in {"otf", "svg"} /\ ~GoodFont(f, p) THEN NoEntry ELSE f[p]]

\* C19: add_tree leaves the registry as if the files that do not match the font name
\* pattern or do not exist (dangling links) were absent from the tree, and does not
\* raise; a direct add_file on such a file raises and leaves the registry unchanged.
C19_BadFilesIgnoredByTreeRefusedDirectly ==
    [][/\ last'.op = "add_tree"
          => /\ last'.err = ""
             /\ installed' \in {add_tree(installed, WithoutBad(fs), l) :
                                  l \in WalkFontRoot(WithoutBad(fs))}
       /\ (last'.op = "add_file" /\ ~GoodFont(fs, last'.file))
          => /\ last'.err # ""
             /\ installed' = installed
    ]_vars

\* a direct add_file was refused after an add_tree that walked over a dangling link
\* and a file that is no font, and registered the fonts beside them
C19_Witness ==
    /\ last.op = "add_file"
    /\ last.err # ""
    /\ last.prev = "add_tree"
    /\ installed # <<>>
    /\ \E p \in DOMAIN fs : p.dir \in {"otf", "svg"} /\ lexists(fs, p) /\ ~exists(fs, p)
    /\ \E p \in DOMAIN fs :
           p.dir \in {"otf", "svg"} /\ exists(fs, p) /\ ~parse_filename(basename(p)).matched

\* C20: add_file on a family that has an established name (the empty string parsed
\* from '-11.otf' included) raises whenever the family parsed from the existing font
\* file differs from that name, and then leaves name and slots as they were; when
\* the names agree the slot is inserted or overwritten and the name is kept.
C20_OtherFamilyAlwaysRefused ==
    [][(/\ last'.op = "add_file"
        /\ repo[1].family # None
        /\ IsFont(check_file(fs, last'.file)))
       => IF check_file(fs, last'.file).family # repo[1].family
          THEN last'.err # "" /\ repo' = repo
          ELSE /\ last'.err = ""
               /\ repo' = <<add(repo[1], check_file(fs, last'.file).type,
                                check_file(fs, last'.file).size, last'.file)>>
    ]_vars

----------------------------------------------------------------------------
(* Properties of the registries: names, status, install, remove *)

\* every file the family holds parses to the family's name
FilesOfOwnFamily(fam) ==
    \A t \in TypeSet : \A i \in 1..Len(fam.files[t]) :
        /\ parse_filename(basename(fam.files[t][i].file)).matched
        /\ parse_filename(basename(fam.files[t][i].file)).family = fam.family

\* C21: in every registry state reached through add_file, add_tree, add_family,
\* install and remove, each registry key is the name of the family stored under it
\* (the registry is keyed by that name, once), and every file held in that family
\* parses to that same family name.
C21_FamilyNameInvariant ==
    \A k \in 1..Len(installed) :
        /\ \A j \in 1..Len(installed) : installed[j].family = installed[k].family => j = k
        /\ FilesOfOwnFamily(installed[k])

\* what is on the disk at a path: a symbolic link whose target exists, a symbolic
\* link whose target does not, a regular file, or neither
OnDisk(f, p) ==
    IF f[p].kind = "link"
    THEN (IF exists(f, f[p].target) THEN LINK ELSE BROKEN_LINK)
    ELSE IF f[p].kind = "file" THEN FILE
    ELSE MISSING_FILE

\* the status of every slot of a family: MISSING for a (type, size) that is not
\* registered, and for a registered slot whose status was not computed yet, what
\* is on the disk at its path
StatusOfFamilyAsOnDisk(fam, f) ==
    \A t \in TypeSet : \A size \in TwoDigits \cup {"brace"} :
        IF ~HasKey(fam, t, size) THEN status(fam, f, t, size) = MISSING
        ELSE FontAt(fam, t, size).status = None
                => status(fam, f, t, size) = OnDisk(f, FontAt(fam, t, size).file)

\* the statuses a flag_for_install step computed and memoized in a registry are what
\* was on the disk at that step
NewlyMemoizedAsOnDisk(reg, regAfter, f) ==
    \A k \in 1..Len(reg) : \A t \in TypeSet : \A i \in 1..Len(reg[k].files[t]) :
        (reg[k].files[t][i].status = None /\ regAfter[k].files[t][i].status # None)
            => regAfter[k].files[t][i].status = OnDisk(f, reg[k].files[t][i].file)

\* C22: status(type, size) returns MISSING for an absent slot; for a registered
\* slot the query that computes the status classifies the file, symbolic link
\* first: a link whose target exists is LINK, a dangling link is BROKEN_LINK (never
\* MISSING_FILE), a regular file is FILE, anything else is MISSING_FILE.
C22_StatusClassifiesLinkFirst ==
    /\ [](\A reg \in {installed, repo, installable} : \A k \in 1..Len(reg) :
              StatusOfFamilyAsOnDisk(reg[k], fs))
    /\ [][last'.op = "flag_for_install"
            => /\ NewlyMemoizedAsOnDisk(repo, repo', fs)
               /\ NewlyMemoizedAsOnDisk(installed, installed', fs)]_vars

\* flag_for_install has computed the status of installed fonts: one is a link to an
\* existing file, one a dangling link
C22_Witness ==
    /\ last.op = "flag_for_install"
    /\ \E k \in 1..Len(installed) : \E t, u \in TypeSet :
        \E i \in 1..Len(installed[k].files[t]) : \E j \in 1..Len(installed[k].files[u]) :
            /\ installed[k].files[t][i].status = LINK
            /\ installed[k].files[u][j].status = BROKEN_LINK
            /\ OnDisk(fs, installed[k].files[u][j].file) = BROKEN_LINK

\* the path install is to create for a source file of a type: the otf directory
\* for otf, the svg directory for svg and woff, under the source's basename
InstallTarget(type, source) ==
    [dir |-> IF type = "otf" THEN "otf" ELSE "svg", name |-> source.name]

\* C23: install(type, source) creates a symbolic link to the source at
\* font_dir(type)/basename(source) (otf in the otf directory, svg and woff in the
\* svg directory); where the host has no symbolic links it copies instead and the
\* target becomes a regular file; when the operating system refuses the link or
\* the copy it raises the permission-kind exception and changes nothing; no other
\* path changes; and when the call returns, the target path is registered in the
\* installed registry under the family, type and size of the file name.
C23_InstallLinksOrCopiesAndRegisters ==
    [][last'.op = "install" =>
        LET target == InstallTarget(last'.type, last'.file)
            font == parse_filename(basename(last'.file))
        IN /\ \A p \in DOMAIN fs : p # target => fs'[p] = fs[p]
           /\ last'.oserr =>
                (last'.err = "permission" /\ fs' = fs /\ installed' = installed)
           /\ (symlinks_ok /\ ~last'.oserr /\ ~lexists(fs, target)) =>
                fs'[target] = LinkTo(last'.file)
           /\ (~symlinks_ok /\ ~last'.oserr /\ exists(fs, last'.file)) =>
                (fs'[target] = RegularFile /\ last'.err = "")
           /\ last'.err = "" =>
                /\ lexists(fs', target)
                /\ SlotOf(installed', font.family, font.type, font.size)
                       = <<MusicFontFile(font.size, target)>>
                /\ \A k \in 1..Len(installed) : \A t \in TypeSet :
                   \A size \in SizeKeys(installed[k], t) :
                       (installed[k].family # font.family \/ t # font.type
                            \/ size # font.size) =>
                           SlotOf(installed', installed[k].family, t, size)
                               = SlotOf(installed, installed[k].family, t, size)
    ]_vars

\* a woff font was installed by a link: the link is in the svg directory and the
\* font is registered as the family's woff slot
C23_Witness ==
    /\ last.op = "install"
    /\ last.err = ""
    /\ last.type = "woff"
    /\ fs[[dir |-> "svg", name |-> last.file.name]] = LinkTo(last.file)
    /\ SlotOf(installed, "a", "woff", "11")
           = <<MusicFontFile("11", [dir |-> "svg", name |-> last.file.name])>>

\* the number of links registered in the first k families of a batch
RECURSIVE LinksInFirst(_, _, _, _)
LinksInFirst(inst, f, indexes, k) ==
    IF k = 0 THEN 0
    ELSE Len(links_of(family(inst, indexes[k]), f)) + LinksInFirst(inst, f, indexes, k - 1)

\* C24: when the operating system refuses an unlink of an all-links family, remove
\* raises the permission-kind exception; the links of that family before the
\* refused one are unlinked, the refused one and those after it are not touched;
\* the family stays in the registry; the families after it in the batch are not
\* processed.  In every remove call a family leaves the registry only after every
\* one of its links was unlinked.
C24_RefusedUnlinkStopsRemove ==
    [][last'.op = "remove" =>
        /\ last'.err = "permission" =>
            LET name == last'.indexes[last'.at]
                links == links_of(family(installed, name), fs)
                j == last'.oserr - LinksInFirst(installed, fs, last'.indexes, last'.at - 1)
            IN /\ AllLinks(installed, fs, name)
               /\ j \in 1..Len(links)
               /\ \A i \in 1..Len(links) :
                    fs'[links[i]] = IF i < j THEN NoEntry ELSE fs[links[i]]
               /\ name \in FamilyKeys(installed')
               /\ family(installed', name) = family(installed, name)
               /\ \A k \in (last'.at + 1)..Len(last'.indexes) :
                    last'.indexes[k] \in FamilyKeys(installed) =>
                        /\ last'.indexes[k] \in FamilyKeys(installed')
                        /\ family(installed', last'.indexes[k])
                               = family(installed, last'.indexes[k])
                        /\ \A p \in RegisteredPaths(installed, fs, last'.indexes[k]) :
                               fs'[p] = fs[p]
        /\ \A name \in FamilyKeys(installed) \ FamilyKeys(installed') :
            /\ AllLinks(installed, fs, name)
            /\ \A p \in RegisteredPaths(installed, fs, name) : fs'[p] = NoEntry
    ]_vars

\* the second unlink of the first family of a batch of two was refused: its first
\* link is gone, its second link is there, and the second family is registered
\* with its link on disk
C24_Witness ==
    /\ last.op = "remove"
    /\ last.err = "permission"
    /\ last.oserr = 2
    /\ last.at = 1
    /\ Len(last.indexes) = 2
    /\ \E p, q \in RegisteredPaths(installed, fs, last.indexes[1]) :
           fs[p] = NoEntry /\ is_symlink(fs, q)
    /\ last.indexes[2] \in FamilyKeys(installed)
    /\ \E p \in RegisteredPaths(installed, fs, last.indexes[2]) : is_symlink(fs, p)

\* the paths held in the slots of a family, read from its dicts
SlotPaths(fam) ==
    UNION {{fam.files[t][i].file : i \in 1..Len(fam.files[t])} : t \in TypeSet}

\* C25: the removal-refused exception reports exactly the offending paths: its
\* message lists the registered paths of the refused family that are no symbolic
\* links, each once, and no symbolic link and no path of another family.
C25_RefusalListsTheNonLinks ==
    [][(last'.op = "remove" /\ last'.err = "refused") =>
        LET name == last'.indexes[last'.at] IN
        /\ name \in FamilyKeys(installed)
        /\ last'.msg # <<>>
        /\ PathSet(last'.msg)
              = {p \in SlotPaths(family(installed, name)) : fs[p].kind # "link"}
        /\ \A i, j \in 1..Len(last'.msg) : last'.msg[i] = last'.msg[j] => i = j
        /\ \A k \in 1..Len(installed) :
              installed[k].family # name =>
                  PathSet(last'.msg) \cap SlotPaths(installed[k]) = {}
    ]_vars

\* a batch of two families that both hold a regular file was refused at the first,
\* which holds a link as well: the message is its one regular file
C25_Witness ==
    /\ last.op = "remove"
    /\ last.err = "refused"
    /\ last.at = 1
    /\ Len(last.indexes) = 2
    /\ Len(last.msg) = 1
    /\ fs[last.msg[1]].kind = "file"
    /\ \E p \in SlotPaths(family(installed, last.indexes[1])) : fs[p].kind = "link"
    /\ HasRegular(installed, fs, last.indexes[2])

----------------------------------------------------------------------------
(* Properties of VCSManager: the stubs, and the pairing of open and close *)

\* a path Git does not resolve and Mercurial or Subversion does
StubPath(path) ==
    /\ path # EmptyUrl
    /\ ~extract_vcs_path("git", path).found
    /\ extract_vcs_path("hg", path).found \/ extract_vcs_path("svn", path).found

\* a path no version control system resolves, or the empty url
Unversioned(path) ==
    \/ path = EmptyUrl
    \/ /\ ~extract_vcs_path("git", path).found
       /\ ~extract_vcs_path("hg", path).found
       /\ ~extract_vcs_path("svn", path).found

\* C26: Mercurial and Subversion are detected but not tracked.  When the path an
\* open, close or url-changed handler resolves is one that Git does not resolve and
\* Mercurial or Subversion does (for url-changed: the old url, or the new url when
\* the old one is empty or under no version control), the handler makes no
\* track_document and no untrack_document call and the tracked set is unchanged.
C26_HgSvnDetectedNotTracked ==
    [][/\ (vlast'.op \in {"open", "close"} /\ StubPath(vlast'.url))
            => (vlast'.made = <<>> /\ tracked' = tracked)
       /\ (/\ vlast'.op = "url_changed"
           /\ \/ StubPath(doc_url[vlast'.doc])
              \/ Unversioned(doc_url[vlast'.doc]) /\ StubPath(vlast'.url))
            => (vlast'.made = <<>> /\ tracked' = tracked)
    ]_vars

\* a document was saved under a name in a Mercurial or Subversion tree while
\* another document is tracked by Git: no call was made
C26_Witness ==
    /\ vlast.op = "url_changed"
    /\ StubPath(vlast.url)
    /\ vlast.made = <<>>
    /\ tracked # {}

\* C27: open/close pairing.  With git available, opening a document whose
\* non-empty url lies in a Git repository calls track_document with the view, the
\* repository root and the relative path, and closing the document with that url
\* calls untrack_document with the same root and relative path; a document with an
\* empty url causes neither call, on open and on close.
C27_OpenTracksCloseUntracks ==
    [][/\ (/\ vlast'.op \in {"open", "close"}
           /\ git_ok
           /\ vlast'.url # EmptyUrl
           /\ extract_vcs_path("git", vlast'.url).found)
            => LET root == extract_vcs_path("git", vlast'.url).root
                   rel == extract_vcs_path("git", vlast'.url).rel
               IN IF vlast'.op = "open"
                  THEN /\ vlast'.made = << <<"track", root, rel>> >>
                       /\ [root |-> root, rel |-> rel, view |-> View(vlast'.doc)]
                              \in tracked'
                       /\ \A e \in tracked' : (e.root # root \/ e.rel # rel) => e \in tracked
                  ELSE /\ vlast'.made = << <<"untrack", root, rel>> >>
                       /\ tracked' = {e \in tracked : e.root # root \/ e.rel # rel}
       /\ (vlast'.op \in {"open", "close"} /\ vlast'.url = EmptyUrl)
            => (vlast'.made = <<>> /\ tracked' = tracked)
    ]_vars

\* a document inside a Git repository was closed and untracked while the other
\* document, opened from another repository, is still tracked
C27_Witness ==
    /\ vlast.op = "close"
    /\ git_ok
    /\ extract_vcs_path("git", vlast.url).found
    /\ vlast.made = << <<"untrack", extract_vcs_path("git", vlast.url).root,
                          extract_vcs_path("git", vlast.url).rel>> >>
    /\ \A e \in tracked : e.root # extract_vcs_path("git", vlast.url).root
    /\ \E e \in tracked : e.view # View(vlast.doc)

----------------------------------------------------------------------------
(* Properties of the installed registry against the disk *)

\* C28: registry/disk consistency.  After any sequence of install_flagged (install)
\* and remove calls, the calls that fail with a permission or refusal error
\* included, and no other program changing the disk, every path registered in the
\* installed registry exists on disk, so that no family remains registered with
\* links of its own unlinked.
C28_RegisteredPathsExist ==
    envChanges = 0 =>
        \A k \in 1..Len(installed) : \A p \in SlotPaths(installed[k]) : lexists(fs, p)

\* C29 as stated: install(type, source) with copy=False never replaces an existing
\* entry: if anything (regular file, link or dangling link) is at the target path
\* already, it raises the permission-kind exception and leaves the target path and
\* the installed registry unchanged.
C29_InstallNeverReplaces ==
    [][(last'.op = "install" /\ lexists(fs, InstallTarget(last'.type, last'.file)))
        => /\ last'.err = "permission"
           /\ fs' = fs
           /\ installed' = installed
    ]_vars

\* a symbolic link in the font directories whose target does not exist
Dangling(f, p) == f[p].kind = "link" /\ ~exists(f, p)

\* C29 amended: on a host that has symbolic links, install(type, source) with
\* copy=False never replaces an existing entry: if anything (regular file, link or
\* dangling link) is at the target path already, it raises the permission-kind
\* exception and leaves the disk and the installed registry unchanged; a dangling
\* link at the target that registry ingestion skipped is an absent slot for
\* flag_for_install, which flags a usable source file for it.  On a host without
\* symbolic links the call copies the source over a regular file at the target,
\* raises nothing and registers the target.
C29_InstallNeverReplacesWhereLinksExist ==
    [][/\ (last'.op = "install" /\ lexists(fs, InstallTarget(last'.type, last'.file)))
          => IF symlinks_ok
             THEN /\ last'.err = "permission"
                  /\ fs' = fs
                  /\ installed' = installed
             ELSE (~last'.oserr /\ exists(fs, last'.file))
                     => /\ last'.err = ""
                        /\ fs'[InstallTarget(last'.type, last'.file)] = RegularFile
                        /\ InstallTarget(last'.type, last'.file)
                              \in SlotPaths(family(installed',
                                      parse_filename(basename(last'.file)).family))
       /\ last'.op = "flag_for_install"
          => \A k \in 1..Len(repo) : \A t \in TypeSet : \A i \in 1..Len(repo[k].files[t]) :
                (/\ Dangling(fs, InstallTarget(t, repo[k].files[t][i].file))
                 /\ SlotOf(installed, repo[k].family, t, repo[k].files[t][i].size) = <<>>
                 /\ OnDisk(fs, repo[k].files[t][i].file) \in {FILE, LINK}
                 /\ repo[k].files[t][i].status \in {None, FILE, LINK})
                    => repo'[k].files[t][i].install
    ]_vars

\* on a host with links, install was refused for a source file whose target path
\* holds a dangling link that is in no slot of the registry; the link is still there
C29_Witness ==
    /\ last.op = "install"
    /\ symlinks_ok
    /\ last.err = "permission"
    /\ ~last.oserr
    /\ exists(fs, last.file)
    /\ Dangling(fs, InstallTarget(last.type, last.file))
    /\ \A k \in 1..Len(installed) :
           InstallTarget(last.type, last.file) \notin SlotPaths(installed[k])
    /\ \E k \in 1..Len(repo) : \E i \in 1..Len(repo[k].files[last.type]) :
           repo[k].files[last.type][i].file = last.file
              /\ repo[k].files[last.type][i].install

\* the same families and slots, each slot with the same file; an install flag is
\* changed only where mayFlag allows it and then only set; a status is changed only
\* by being filled in
SameSlotsButCaches(reg, regAfter, mayFlag) ==
    /\ Len(regAfter) = Len(reg)
    /\ \A k \in 1..Len(reg) :
        /\ regAfter[k].family = reg[k].family
        /\ \A t \in TypeSet :
            /\ Len(regAfter[k].files[t]) = Len(reg[k].files[t])
            /\ \A i \in 1..Len(reg[k].files[t]) :
                /\ regAfter[k].files[t][i].size = reg[k].files[t][i].size
                /\ regAfter[k].files[t][i].file = reg[k].files[t][i].file
                /\ regAfter[k].files[t][i].install # reg[k].files[t][i].install
                      => (mayFlag /\ regAfter[k].files[t][i].install)
                /\ regAfter[k].files[t][i].status # reg[k].files[t][i].status
                      => reg[k].files[t][i].status = None

\* C30: flag_for_install performs no mutation of the target: it leaves the
\* filesystem, the families and slots of the installed registry and the families
\* and slots of the source repository unchanged; it only sets install flags on
\* source files, fills status caches and rebuilds installable_fonts (also when it
\* raises).
C30_FlagMutatesNothingButFlagsAndCaches ==
    [][last'.op = "flag_for_install" =>
        /\ fs' = fs
        /\ rows' = rows
        /\ SameSlotsButCaches(installed, installed', FALSE)
        /\ SameSlotsButCaches(repo, repo', TRUE)
    ]_vars

\* flag_for_install returned with a file flagged and one not flagged, a status
\* cached in the installed registry, and installable_fonts rebuilt
C30_Witness ==
    /\ last.op = "flag_for_install"
    /\ last.err = ""
    /\ installable # <<>>
    /\ \E k \in 1..Len(installed) : \E t \in TypeSet : \E i \in 1..Len(installed[k].files[t]) :
           installed[k].files[t][i].status # None
    /\ \E k, j \in 1..Len(repo) : \E t, u \in TypeSet :
       \E i \in 1..Len(repo[k].files[t]) : \E h \in 1..Len(repo[j].files[u]) :
           repo[k].files[t][i].install /\ ~repo[j].files[u][h].install
====
